---- MODULE Spec2Model ----
(***************************************************************************)
(* A model of the financial analyst of ps-billing-requests: the layered    *)
(* balance cache (workflows/index.js, db/cache.js), the balance calculator *)
(* and the tool-call loop (financial-analyst/index.js, claude-client.js).  *)
(*                                                                         *)
(* Node runs one callback at a time: an async function runs without        *)
(* interruption up to its next await, so every action below is the code    *)
(* between two awaits of one call, and the calls interleave at the awaits. *)
(***************************************************************************)
EXTENDS Integers, Sequences, FiniteSets, TLC

\* ------------------------------------------------------------------------
\* Bounds of the model
\* ------------------------------------------------------------------------

\* calls of the cache's entry points in one behaviour
MaxCalls == 2

\* advances of the clock in one behaviour
MaxTicks == 1

\* the top-level requests (tool calls of Slack threads) served at once
Callers == {1, 2}

\* the states of the remote ledger (it changes while the bot runs)
LedgerVersions == {1, 2}

\* ------------------------------------------------------------------------
\* JavaScript values
\* ------------------------------------------------------------------------

\* A JS number is a record: a finite number, NaN, or (after JSON) null.
Num(n) == [k |-> "num", v |-> n]

NaN == [k |-> "NaN", v |-> 0]

JNull == [k |-> "null", v |-> 0]

\* a double that is no integer: the double nearest to tenths/10, or the one
\* ulps units in the last place above it (0.30000000000000004 is Dbl(3, 1))
Dbl(tenths, ulps) == [k |-> "dbl", v |-> 10 * tenths + ulps]

\* a + b of IEEE 754 binary64, rounded to nearest, on the doubles the sums of
\* 0.1, 0.2 and 0.3 run through: 0.1 + 0.2 is 0.30000000000000004, and both
\* that + 0.3 and 0.4 + 0.2 are 0.6000000000000001, while 0.5 + 0.1 is 0.6
FloatAdd(a, b) ==
  LET x == IF a.v < b.v THEN a.v ELSE b.v
      y == IF a.v < b.v THEN b.v ELSE a.v
  IN CASE x = 10 /\ y = 20 -> Dbl(3, 1)
       [] x = 10 /\ y = 30 -> Dbl(4, 0)
       [] x = 20 /\ y = 30 -> Dbl(5, 0)
       [] x = 30 /\ y = 31 -> Dbl(6, 1)
       [] x = 20 /\ y = 40 -> Dbl(6, 1)
       [] x = 10 /\ y = 50 -> Dbl(6, 0)

\* a + b of JS on numbers and NaN (the sums never hold null before JSON);
\* integers add exactly, 0 + x is x
Add(a, b) ==
  IF a.k = "num" /\ b.k = "num" THEN Num(a.v + b.v)
  ELSE IF a.k = "dbl" /\ b.k = "dbl" THEN FloatAdd(a, b)
  ELSE IF a = Num(0) /\ b.k = "dbl" THEN b
  ELSE IF b = Num(0) /\ a.k = "dbl" THEN a
  ELSE NaN

\* a - b of JS: null converts to 0, NaN is contagious
Sub(a, b) ==
  IF a.k = "NaN" \/ b.k = "NaN" THEN NaN
  ELSE Num((IF a.k = "num" THEN a.v ELSE 0) - (IF b.k = "num" THEN b.v ELSE 0))

\* an optional value: null is <<>>, a value x is <<x>>
None == <<>>

Some(x) == <<x>>

\* the null of a string-valued field (a cursor, a code, a type): falsy
NoStr == ""

\* Math.round(a / b) for a >= 0, b > 0: halves round up
Round(a, b) == (2 * a + b) \div (2 * b)

\* JSON.stringify then parse of one number: NaN is written as null
JsonNum(x) == IF x.k = "NaN" THEN JNull ELSE x

\* JSON.stringify(balances) stored as JSONB and read back (cache.js:108, :66)
JsonRoundTrip(m) ==
  [c \in DOMAIN m |->
     [m[c] EXCEPT !.debits = JsonNum(@), !.credits = JsonNum(@),
                  !.balance = JsonNum(@)]]

\* ------------------------------------------------------------------------
\* The remote ledger (Rillet): GET /accounts and GET /journal-entries
\* ------------------------------------------------------------------------

Account(code, name, type, subtype, status) ==
  [code |-> code, name |-> name, type |-> type, subtype |-> subtype,
   status |-> status]

Item(code, side, amount) == [account_code |-> code, side |-> side, amount |-> amount]

\* the amount field as the API sends it: a decimal string, a string that is
\* no number, or nothing at all
RawNum(n) == [k |-> "num", v |-> n]

\* a decimal string of so many tenths ("0.1" is RawDec(1))
RawDec(tenths) == [k |-> "dec", v |-> tenths]

RawJunk == [k |-> "junk", v |-> 0]

RawMissing == [k |-> "missing", v |-> 0]

\* data.accounts of version v of the ledger
LedgerAccounts(v) ==
  << Account("11001", "Operating Cash", "ASSET", "Cash", "ACTIVE"),
     Account("21001", "Accounts Payable", "Liability", "Payable", "ACTIVE"),
     Account("41001", NoStr, NoStr, NoStr, "INACTIVE") >>

\* the cursors of the journal-entry pages, in fetch order; NoStr asks for the first
CursorChain == << NoStr, "c2" >>

\* a long ledger of n pages, as a value of the ledger: each page holds one
\* DEBIT of 1 to account 11001
LongLedger(n) == 10 + n

\* the number of pages of a long ledger
LongPages(v) == v - 10

\* the cursor that asks for page k: none for the first page
CursorOf(k) == IF k = 1 THEN NoStr ELSE "c" \o ToString(k)

\* the page of a long ledger of n pages that cursor c asks for
LongPage(n, c) ==
  LET k == CHOOSE i \in 1..n : CursorOf(i) = c
  IN [journal_entries |-> << [items |-> << Item("11001", "DEBIT", RawNum(1)) >>] >>,
      next_cursor |-> IF k < n THEN CursorOf(k + 1) ELSE NoStr]

\* the page GET /journal-entries?cursor=c returns in version v
LedgerPage(v, c) ==
  IF v > 10 THEN LongPage(LongPages(v), c)
  ELSE IF c = NoStr
  THEN [journal_entries |->
          << [items |-> << Item("11001", "DEBIT", RawNum(100)) >>] >>,
        next_cursor |-> "c2"]
  ELSE [journal_entries |->
          << [items |-> << Item("11001", "CREDIT", RawNum(40)),
                           Item("99999", "DEBIT", RawNum(5)) >>],
             [items |-> << Item("21001", "CREDIT", RawNum(v)),
                           Item("41001", "credit", RawNum(3)),
                           Item("21001", "DEBIT",
                                IF v >= 2 THEN RawJunk ELSE RawMissing) >>] >>,
        next_cursor |-> NoStr]

\* ------------------------------------------------------------------------
\* Ledger Reader and Balance Calculator (workflows/index.js:329-406)
\* ------------------------------------------------------------------------

MEMORY_CACHE_TTL == 5 * 60 * 1000

CACHE_TTL == 5 * 60 * 1000

MAX_AGE_HOURS == 24

maxPages == 500

\* parseFloat(item.amount?.amount || 0)
parseFloat(raw) ==
  IF raw.k = "missing" THEN Num(0)
  ELSE IF raw.k = "num" THEN Num(raw.v)
  ELSE IF raw.k = "dec" THEN Dbl(raw.v, 0)
  ELSE NaN

\* the set of elements of a sequence
Range(s) == {s[i] : i \in DOMAIN s}

\* an initialisation that leaves out the accounts that are not active
InitBalances_Active(accounts) ==
  [c \in {a.code : a \in {x \in Range(accounts) : x.status = "ACTIVE"}} |->
     [debits |-> Num(0), credits |-> Num(0), transactions |-> 0]]

\* balances[acc.code] = { debits: 0, credits: 0, transactions: 0 } for ALL accounts
InitBalances(accounts) ==
  [c \in {a.code : a \in Range(accounts)} |->
     [debits |-> Num(0), credits |-> Num(0), transactions |-> 0]]

\* a loop body that books every item that is no DEBIT as a credit
ProcessItem_ElseCredit(balances, item) ==
  IF item.account_code # NoStr /\ item.account_code \in DOMAIN balances
  THEN LET amount == parseFloat(item.amount)
           b == balances[item.account_code]
           b1 == IF item.side = "DEBIT"
                 THEN [b EXCEPT !.debits = Add(@, amount)]
                 ELSE [b EXCEPT !.credits = Add(@, amount)]
       IN [balances EXCEPT ![item.account_code] =
             [b1 EXCEPT !.transactions = @ + 1]]
  ELSE balances

\* the body of the loop over items (index.js:362-371)
ProcessItem(balances, item) ==
  IF item.account_code # NoStr /\ item.account_code \in DOMAIN balances
  THEN LET amount == parseFloat(item.amount)
           b == balances[item.account_code]
           b1 == IF item.side = "DEBIT"
                 THEN [b EXCEPT !.debits = Add(@, amount)]
                 ELSE IF item.side = "CREDIT"
                      THEN [b EXCEPT !.credits = Add(@, amount)]
                      ELSE b
       IN [balances EXCEPT ![item.account_code] =
             [b1 EXCEPT !.transactions = @ + 1]]
  ELSE balances

RECURSIVE ProcessItems(_, _)
ProcessItems(balances, items) ==
  IF items = <<>> THEN balances
  ELSE ProcessItems(ProcessItem(balances, Head(items)), Tail(items))

\* for (const entry of entries) for (const item of entry.items || [])
RECURSIVE ProcessEntries(_, _)
ProcessEntries(balances, entries) ==
  IF entries = <<>> THEN balances
  ELSE ProcessEntries(ProcessItems(balances, Head(entries).items), Tail(entries))

\* (acc.type || '').toUpperCase() on the type strings of the model
toUpperCase(s) ==
  CASE s \in {"liability", "Liability", "LIABILITY"} -> "LIABILITY"
    [] s \in {"equity", "Equity", "EQUITY"} -> "EQUITY"
    [] s \in {"revenue", "Revenue", "rEvEnUe", "REVENUE"} -> "REVENUE"
    [] s \in {"income", "Income", "INCOME"} -> "INCOME"
    [] s \in {"asset", "Asset", "ASSET"} -> "ASSET"
    [] s \in {"expense", "Expense", "EXPENSE"} -> "EXPENSE"
    [] s \in {"contra", "Contra", "CONTRA"} -> "CONTRA"
    [] OTHER -> s

\* a test for the credit-normal types that compares the type as it is spelt
isCredit_AsSpelt(type) == type \in {"LIABILITY", "EQUITY", "REVENUE", "INCOME"}

\* ['LIABILITY', 'EQUITY', 'REVENUE', 'INCOME'].includes(type.toUpperCase())
isCredit(type) ==
  toUpperCase(type) \in {"LIABILITY", "EQUITY", "REVENUE", "INCOME"}

\* isCredit ? (b.credits - b.debits) : (b.debits - b.credits)
SignedBalance(type, b) ==
  IF isCredit(type) THEN Sub(b.credits, b.debits) ELSE Sub(b.debits, b.credits)

\* x || 'Unknown'
OrUnknown(s) == IF s = NoStr THEN "Unknown" ELSE s

\* accountsMap[code]: the last account of the list carrying the code
AccountOf(accounts, code) ==
  LET idx == {i \in DOMAIN accounts : accounts[i].code = code}
  IN accounts[CHOOSE i \in idx : \A j \in idx : j <= i]

\* results[code] = { code, name, type, subtype, debits, credits, balance, transactions }
FinalBalances(accounts, balances) ==
  [code \in DOMAIN balances |->
     LET acc == AccountOf(accounts, code)
         b == balances[code]
     IN [code |-> code,
         name |-> OrUnknown(acc.name),
         type |-> OrUnknown(acc.type),
         subtype |-> OrUnknown(acc.subtype),
         debits |-> b.debits,
         credits |-> b.credits,
         balance |-> SignedBalance(acc.type, b),
         transactions |-> b.transactions]]

\* ------------------------------------------------------------------------
\* State
\* ------------------------------------------------------------------------

VARIABLES
  clock,             \* Date.now() and the database's CURRENT_TIMESTAMP, in ms
  ticks,             \* how often the clock has advanced
  ledger,            \* the version of the remote ledger
  dbConfigured,      \* process.env.DATABASE_URL is set
  db,                \* the rows of table balance_cache
  nextId,            \* the SERIAL of balance_cache.id
  accountsCache,     \* workflows/index.js:38
  accountsCacheTime, \* workflows/index.js:39 (0 is null: both are falsy)
  memoryCache,       \* Tier 1, workflows/index.js:262
  memoryCacheTime,   \* workflows/index.js:263 (0 is null: both are falsy)
  pc,                \* where each call stands: the await it is suspended at
  frame,             \* the arguments and locals of each call
  obs,               \* what each call has done so far: its requests, its path
  callsMade,         \* calls started in this behaviour
  loop,              \* the locals of analyze and of createMessageWithRetry
  trace,             \* what the call of analyze has done so far
  toolThrows,        \* the tools whose implementation fails in this behaviour
  calcInput,         \* an account and its sums of debits and credits
  calcResult,        \* the entry of the balance map computed for it
  aggOrder,          \* journal-entry pages, in the order the scan is handed them
  aggPos,            \* how many of them the scan has processed
  aggBalances,       \* balances, the running sums of the scan
  findCriteria,      \* the criteria findAccounts is called with
  findResult,        \* the accounts it returned
  execName,          \* the name tools.execute is called with
  execResult,        \* what it resolved to
  execContent,       \* the content of the tool_result made of it
  wfInput,           \* the input accountBalance is called with
  wfLedger,          \* the accounts the ledger holds
  wfPc,              \* where the call of accountBalance stands
  wfMatched,         \* matchedAccounts
  wfOut,             \* what accountBalance returned
  wfEffects,         \* the calls accountBalance has made
  conversationStore, \* financial-analyst/index.js:150, thread -> its entry
  convNow,           \* Date.now() as the conversation store sees it, in ms
  sweepDue,          \* when the timer of cleanupOldConversations fires next
  convCalls,         \* the handlers suspended in analyze, and their locals
  convCount,         \* the commands, replies and advances of time so far
  convEvent,         \* the store operation of the latest step
  appEnv,            \* process.env as app.js reads it
  appIn,             \* the command, message or request handled last
  appOut             \* what its handler did

cacheVars ==
  << clock, ticks, ledger, dbConfigured, db, nextId, accountsCache,
     accountsCacheTime, memoryCache, memoryCacheTime, pc, frame, obs, callsMade >>

loopVars == << loop, trace, toolThrows >>

calcVars == << calcInput, calcResult >>

aggVars == << aggOrder, aggPos, aggBalances >>

findVars == << findCriteria, findResult >>

wfVars == << wfInput, wfLedger, wfPc, wfMatched, wfOut, wfEffects >>

execVars == << execName, execResult, execContent >>

convVars ==
  << conversationStore, convNow, sweepDue, convCalls, convCount, convEvent >>

appVars == << appEnv, appIn, appOut >>

vars ==
  << cacheVars, loopVars, calcVars, aggVars, findVars, wfVars, execVars,
     convVars, appVars >>

\* what the actions of one part of the program leave alone
otherThanCache ==
  << loopVars, calcVars, aggVars, findVars, wfVars, execVars, convVars,
     appVars >>

otherThanLoop ==
  << cacheVars, calcVars, aggVars, findVars, wfVars, execVars, convVars,
     appVars >>

otherThanCalc ==
  << cacheVars, loopVars, aggVars, findVars, wfVars, execVars, convVars,
     appVars >>

otherThanAgg ==
  << cacheVars, loopVars, calcVars, findVars, wfVars, execVars, convVars,
     appVars >>

otherThanFind ==
  << cacheVars, loopVars, calcVars, aggVars, wfVars, execVars, convVars,
     appVars >>

otherThanWf ==
  << cacheVars, loopVars, calcVars, aggVars, findVars, execVars, convVars,
     appVars >>

\* tools.execute on its own runs under the loop's toolThrows
otherThanExec ==
  << cacheVars, loop, trace, calcVars, aggVars, findVars, wfVars, convVars,
     appVars >>

otherThanConv ==
  << cacheVars, loopVars, calcVars, aggVars, findVars, wfVars, execVars,
     appVars >>

otherThanApp ==
  << cacheVars, loopVars, calcVars, aggVars, findVars, wfVars, execVars,
     convVars >>

\* the locals of a call that has not started
NoFrame ==
  [entry |-> "none", accountCodes |-> <<>>, forceRefresh |-> FALSE, now |-> 0,
   acctNow |-> 0, accounts |-> <<>>, balances |-> <<>>, cursor |-> NoStr,
   pageCount |-> 0, results |-> <<>>, ret |-> None, out |-> None,
   report |-> None]

\* what a call has done: the requests it sent to the ledger (ledgerReqs; those
\* for journal entries, pageReqs) and to the store (dbReqs), whether one of its
\* store operations threw (dbErr), the id of the row it inserted (inserted, 0
\* for none), the tier that served it (path), and the map Tier 1 held when a
\* call without forceRefresh began, if Tier 1 was then younger than its TTL (t1)
NoObs ==
  [ledgerReqs |-> 0, pageReqs |-> 0, dbReqs |-> 0, dbErr |-> FALSE, inserted |-> 0,
   path |-> "none", t1 |-> None]

\* ------------------------------------------------------------------------
\* db/cache.js
\* ------------------------------------------------------------------------

\* an age taken in seconds where hours are meant
AgeHours_Seconds(row, t) == Round(t - row.created_at, 1000)

\* age_hours of getBalanceCache for a row read at time t (cache.js:59-61)
AgeHours(row, t) == Round(Round(t - row.created_at, 60000), 60)

\* SELECT ... ORDER BY created_at DESC LIMIT 1: a row no other row is newer than
NewestRows(rows) == {r \in rows : \A q \in rows : q.created_at <= r.created_at}

\* SELECT id ... ORDER BY created_at DESC LIMIT 4: the sets of rows it may
\* return (rows of equal created_at come in any order)
Latest4(rows) ==
  {K \in SUBSET rows :
     /\ Cardinality(K) = (IF Cardinality(rows) < 4 THEN Cardinality(rows) ELSE 4)
     /\ \A r \in K : \A q \in rows \ K : q.created_at <= r.created_at}

\* an insert that stores what Tier 1 holds, not the map it was handed
NewRow_FromTier1(balances) ==
  [id |-> nextId, data |-> JsonRoundTrip(memoryCache[1]), created_at |-> clock,
   account_count |-> Cardinality(DOMAIN memoryCache[1])]

\* INSERT INTO balance_cache (data, account_count) VALUES ($1, $2)
NewRow(balances) ==
  [id |-> nextId, data |-> JsonRoundTrip(balances), created_at |-> clock,
   account_count |-> Cardinality(DOMAIN balances)]

\* ------------------------------------------------------------------------
\* workflows/index.js: the layered cache
\* ------------------------------------------------------------------------

\* a Tier 1 check with the TTL taken in seconds, not milliseconds
MemoryCacheValid_Seconds(now) ==
  /\ memoryCache # None
  /\ memoryCacheTime # 0
  /\ now - memoryCacheTime < 5 * 60

\* memoryCache && memoryCacheTime && (now - memoryCacheTime) < MEMORY_CACHE_TTL
MemoryCacheValid(now) ==
  /\ memoryCache # None
  /\ memoryCacheTime # 0
  /\ now - memoryCacheTime < MEMORY_CACHE_TTL

\* accountsCache && accountsCacheTime && (now - accountsCacheTime) < CACHE_TTL
AccountsCacheValid(now) ==
  /\ accountsCache # None
  /\ accountsCacheTime # 0
  /\ now - accountsCacheTime < CACHE_TTL

\* a projection that hands out the full map
Project_All(allBalances, accountCodes) == allBalances

\* the codes asked for that the full map holds (calculateBalances, :430-435)
Project(allBalances, accountCodes) ==
  [c \in Range(accountCodes) \cap DOMAIN allBalances |-> allBalances[c]]

\* what the entry point hands to its caller when getAllAccountBalances returns
\* m: calculateBalances the codes asked for, refreshBalanceCache all of m
Returned(f, m) ==
  IF f.entry = "calculateBalances" THEN Some(Project(m, f.accountCodes)) ELSE Some(m)

\* what accountBalance returns when calculateBalances handed it balances
\* (:504-522)
AccountBalanceResult(balances) ==
  [workflow |-> "account_balance", accounts_found |-> Cardinality(DOMAIN balances)]

\* what accountBalance returns when findAccounts or calculateBalances threw
\* (:524-531)
WorkflowFailed == [error |-> "Workflow failed", is_error |-> TRUE]

\* getAllAccountBalances has returned m (ret) and the entry point its result
\* (out): the locals are gone. accountBalance, which calls calculateBalances
\* with the codes it found (:500-501), formats what it got (report).
Finished(f, m) ==
  [NoFrame EXCEPT !.entry = f.entry, !.accountCodes = f.accountCodes,
                  !.forceRefresh = f.forceRefresh, !.ret = Some(m),
                  !.out = Returned(f, m),
                  !.report = IF f.entry = "calculateBalances"
                             THEN Some(AccountBalanceResult(Project(m, f.accountCodes)))
                             ELSE None]

\* an error of calculateBalances that accountBalance lets through
Thrown_Rethrow(f) ==
  [NoFrame EXCEPT !.entry = f.entry, !.accountCodes = f.accountCodes,
                  !.forceRefresh = f.forceRefresh]

\* the call has thrown: its locals are gone. The catch of accountBalance
\* turns what calculateBalances threw into a result (:524-531);
\* refreshBalanceCache has no catch (:601-604).
Thrown(f) ==
  [NoFrame EXCEPT !.entry = f.entry, !.accountCodes = f.accountCodes,
                  !.forceRefresh = f.forceRefresh,
                  !.report = IF f.entry = "calculateBalances"
                             THEN Some(WorkflowFailed) ELSE None]

\* the first request for journal entries goes out (index.js:342-353)
StartScan(f, o, accounts) ==
  [pc |-> "fetch_page",
   frame |-> [f EXCEPT !.accounts = accounts, !.balances = InitBalances(accounts),
                       !.cursor = NoStr, !.pageCount = 0],
   obs |-> [o EXCEPT !.ledgerReqs = @ + 1, !.pageReqs = @ + 1, !.path = "L3"]]

\* L3 begins: getAllAccounts() answers from its cache or asks the ledger (:329, :42-54)
EnterCold(f, o) ==
  IF AccountsCacheValid(clock)
  THEN StartScan(f, o, accountsCache[1])
  ELSE [pc |-> "fetch_accounts",
        frame |-> [f EXCEPT !.acctNow = clock],
        obs |-> [o EXCEPT !.ledgerReqs = @ + 1, !.path = "L3"]]

\* Tier 1 is populated and younger than its five minutes at time t
Tier1Fresh(t) == memoryCache # None /\ t - memoryCacheTime < 300000

\* the codes a caller may ask calculateBalances for: none, or a subset of its
\* own (the callers ask for distinct subsets)
CodeLists(p) == { <<>>, IF p = 1 THEN <<"11001">> ELSE <<"21001", "99999">> }

\* a loop condition that ends the scan after its first page
MorePages_Never(cursor, pageCount) == FALSE

\* a loop condition without the ceiling
MorePages_NoCeiling(cursor, pageCount) == cursor # NoStr

\* while (cursor && pageCount < maxPages)
MorePages(cursor, pageCount) == cursor # NoStr /\ pageCount < maxPages

\* An entry point is called: calculateBalances(codes) (:421-427), which calls
\* getAllAccountBalances(), or refreshBalanceCache() (:601-604), which calls
\* getAllAccountBalances(true). The call runs to its first await (:304-329).
Call(p, entry, force, codes) ==
  /\ pc[p] \in {"idle", "done", "threw"}
  /\ callsMade < MaxCalls
  /\ callsMade' = callsMade + 1
  /\ LET f == [NoFrame EXCEPT !.entry = entry, !.accountCodes = codes,
                              !.forceRefresh = force, !.now = clock]
         o == [NoObs EXCEPT !.t1 = IF ~force /\ codes # <<>> /\ Tier1Fresh(clock)
                                   THEN memoryCache ELSE None]
     IN IF entry = "calculateBalances" /\ codes = <<>>
        THEN /\ pc' = [pc EXCEPT ![p] = "done"]
             /\ frame' = [frame EXCEPT ![p] =
                            [Thrown(f) EXCEPT !.out = Some(<<>>), !.report = None]]
             /\ obs' = [obs EXCEPT ![p] = [o EXCEPT !.path = "empty"]]
        ELSE IF ~force /\ MemoryCacheValid(clock)
        THEN /\ pc' = [pc EXCEPT ![p] = "done"]
             /\ frame' = [frame EXCEPT ![p] = Finished(f, memoryCache[1])]
             /\ obs' = [obs EXCEPT ![p] = [o EXCEPT !.path = "L1"]]
        ELSE IF ~force
        THEN /\ pc' = [pc EXCEPT ![p] = "db_read"]
             /\ frame' = [frame EXCEPT ![p] = f]
             /\ obs' = [obs EXCEPT ![p] =
                          [o EXCEPT !.dbReqs = IF dbConfigured THEN 1 ELSE 0]]
        ELSE LET n == EnterCold(f, o)
             IN /\ pc' = [pc EXCEPT ![p] = n.pc]
                /\ frame' = [frame EXCEPT ![p] = n.frame]
                /\ obs' = [obs EXCEPT ![p] = n.obs]
  /\ UNCHANGED << clock, ticks, ledger, dbConfigured, db, nextId, accountsCache,
                  accountsCacheTime, memoryCache, memoryCacheTime >>
  /\ UNCHANGED otherThanCache

\* L2: getBalancesFromDB() answers (:270-287, cache.js:39-76). ok: the
\* connection and the SELECT succeed.
DbRead(p, ok) ==
  /\ pc[p] = "db_read"
  /\ LET f == frame[p]
         o == obs[p]
         cold == LET n == EnterCold(f, [o EXCEPT !.dbErr = dbConfigured /\ ~ok])
                 IN /\ pc' = [pc EXCEPT ![p] = n.pc]
                    /\ frame' = [frame EXCEPT ![p] = n.frame]
                    /\ obs' = [obs EXCEPT ![p] = n.obs]
                    /\ UNCHANGED << memoryCache, memoryCacheTime >>
     IN IF ~dbConfigured \/ ~ok \/ db = {}
        THEN cold
        ELSE \E row \in NewestRows(db) :
               IF AgeHours(row, clock) > MAX_AGE_HOURS
               THEN cold
               ELSE /\ memoryCache' = Some(row.data)
                    /\ memoryCacheTime' = f.now
                    /\ pc' = [pc EXCEPT ![p] = "done"]
                    /\ frame' = [frame EXCEPT ![p] = Finished(f, row.data)]
                    /\ obs' = [obs EXCEPT ![p] = [o EXCEPT !.path = "L2"]]
  /\ UNCHANGED << clock, ticks, ledger, dbConfigured, db, nextId, accountsCache,
                  accountsCacheTime, callsMade >>
  /\ UNCHANGED otherThanCache

\* GET /accounts answers (:49-53), then the scan starts. ok: a 2xx response.
FetchAccounts(p, ok) ==
  /\ pc[p] = "fetch_accounts"
  /\ IF ok
     THEN LET accounts == LedgerAccounts(ledger)
              n == StartScan(frame[p], obs[p], accounts)
          IN /\ accountsCache' = Some(accounts)
             /\ accountsCacheTime' = frame[p].acctNow
             /\ pc' = [pc EXCEPT ![p] = n.pc]
             /\ frame' = [frame EXCEPT ![p] = n.frame]
             /\ obs' = [obs EXCEPT ![p] = n.obs]
     ELSE /\ pc' = [pc EXCEPT ![p] = "threw"]
          /\ frame' = [frame EXCEPT ![p] = Thrown(frame[p])]
          /\ UNCHANGED << accountsCache, accountsCacheTime, obs >>
  /\ UNCHANGED << clock, ticks, ledger, dbConfigured, db, nextId, memoryCache,
                  memoryCacheTime, callsMade >>
  /\ UNCHANGED otherThanCache

\* One page of GET /journal-entries answers: the body of the do-while
\* (:349-381) and, when the loop ends, :386-411 up to the first await of
\* setBalanceCache (pool.connect() and initCacheTable(), which change
\* nothing). ok: a 2xx response.
FetchPage(p, ok) ==
  /\ pc[p] = "fetch_page"
  /\ IF ~ok
     THEN /\ pc' = [pc EXCEPT ![p] = "threw"]
          /\ frame' = [frame EXCEPT ![p] = Thrown(frame[p])]
          /\ UNCHANGED << obs, memoryCache, memoryCacheTime >>
     ELSE LET f == frame[p]
              o == obs[p]
              data == LedgerPage(ledger, f.cursor)
              pageCount == f.pageCount + 1
              balances == ProcessEntries(f.balances, data.journal_entries)
              cursor == data.next_cursor
              f1 == [f EXCEPT !.pageCount = pageCount, !.balances = balances,
                              !.cursor = cursor]
              results == FinalBalances(f.accounts, balances)
          IN IF MorePages(cursor, pageCount)
             THEN /\ frame' = [frame EXCEPT ![p] = f1]
                  /\ obs' = [obs EXCEPT ![p] =
                               [o EXCEPT !.ledgerReqs = @ + 1, !.pageReqs = @ + 1]]
                  /\ pc' = pc
                  /\ UNCHANGED << memoryCache, memoryCacheTime >>
             ELSE /\ memoryCache' = Some(results)
                  /\ memoryCacheTime' = f.now
                  /\ IF dbConfigured
                     THEN /\ pc' = [pc EXCEPT ![p] = "save_delete"]
                          /\ frame' = [frame EXCEPT ![p] =
                                         [f1 EXCEPT !.results = results]]
                          /\ obs' = [obs EXCEPT ![p] = [o EXCEPT !.dbReqs = @ + 1]]
                     ELSE /\ pc' = [pc EXCEPT ![p] = "done"]
                          /\ frame' = [frame EXCEPT ![p] = Finished(f, results)]
                          /\ obs' = obs
  /\ UNCHANGED << clock, ticks, ledger, dbConfigured, db, nextId, accountsCache,
                  accountsCacheTime, callsMade >>
  /\ UNCHANGED otherThanCache

\* a saveBalancesToDB that lets through what setBalanceCache throws
SaveEnds_Rethrow(p) ==
  /\ pc' = [pc EXCEPT ![p] = "threw"]
  /\ frame' = [frame EXCEPT ![p] = Thrown(frame[p])]

\* saveBalancesToDB swallows what setBalanceCache throws (:292-298); the call
\* returns its results either way (:415)
SaveEnds(p) ==
  /\ pc' = [pc EXCEPT ![p] = "done"]
  /\ frame' = [frame EXCEPT ![p] = Finished(frame[p], frame[p].results)]

\* the connection is there and DELETE FROM balance_cache WHERE id NOT IN (the
\* 4 newest) answers (cache.js:88-103). ok: none of them throws.
SaveDelete(p, ok) ==
  /\ pc[p] = "save_delete"
  /\ IF ok
     THEN /\ \E K \in Latest4(db) : db' = K
          /\ pc' = [pc EXCEPT ![p] = "save_insert"]
          /\ frame' = frame
     ELSE /\ SaveEnds(p)
          /\ db' = db
  /\ obs' = [obs EXCEPT ![p] = [@ EXCEPT !.dbErr = ~ok]]
  /\ UNCHANGED << clock, ticks, ledger, dbConfigured, nextId, accountsCache,
                  accountsCacheTime, memoryCache, memoryCacheTime, callsMade >>
  /\ UNCHANGED otherThanCache

\* INSERT INTO balance_cache answers (cache.js:106-109), the client is
\* released and getAllAccountBalances returns (:411-415)
SaveInsert(p, ok) ==
  /\ pc[p] = "save_insert"
  /\ SaveEnds(p)
  /\ IF ok
     THEN /\ db' = db \cup {NewRow(frame[p].results)}
          /\ nextId' = nextId + 1
          /\ obs' = [obs EXCEPT ![p] = [@ EXCEPT !.inserted = nextId]]
     ELSE /\ UNCHANGED << db, nextId >>
          /\ obs' = [obs EXCEPT ![p] = [@ EXCEPT !.dbErr = TRUE]]
  /\ UNCHANGED << clock, ticks, ledger, dbConfigured, accountsCache,
                  accountsCacheTime, memoryCache, memoryCacheTime, callsMade >>
  /\ UNCHANGED otherThanCache

\* time passes: just less than the Tier 1 TTL, or all of it
TickSteps == {MEMORY_CACHE_TTL - 1, MEMORY_CACHE_TTL}

Tick(d) ==
  /\ ticks < MaxTicks
  /\ ticks' = ticks + 1
  /\ clock' = clock + d
  /\ UNCHANGED << ledger, dbConfigured, db, nextId, accountsCache, accountsCacheTime,
                  memoryCache, memoryCacheTime, pc, frame, obs, callsMade >>
  /\ UNCHANGED otherThanCache

\* somebody posts to the ledger
LedgerChange ==
  /\ ledger + 1 \in LedgerVersions
  /\ ledger' = ledger + 1
  /\ UNCHANGED << clock, ticks, dbConfigured, db, nextId, accountsCache,
                  accountsCacheTime, memoryCache, memoryCacheTime, pc, frame, obs,
                  callsMade >>
  /\ UNCHANGED otherThanCache

\* the process has started: nothing is cached, no call is under way
CacheStart ==
  /\ clock = 1
  /\ ticks = 0
  /\ dbConfigured \in BOOLEAN
  /\ db = {}
  /\ nextId = 1
  /\ accountsCache = None
  /\ accountsCacheTime = 0
  /\ memoryCache = None
  /\ memoryCacheTime = 0
  /\ pc = [p \in Callers |-> "idle"]
  /\ frame = [p \in Callers |-> NoFrame]
  /\ obs = [p \in Callers |-> NoObs]
  /\ callsMade = 0

CacheInit == ledger = 1 /\ CacheStart

CacheNext ==
  \/ \E p \in Callers :
       \/ \E codes \in CodeLists(p) : Call(p, "calculateBalances", FALSE, codes)
       \/ Call(p, "refreshBalanceCache", TRUE, <<>>)
       \/ \E ok \in BOOLEAN : DbRead(p, ok)
       \/ \E ok \in BOOLEAN : FetchAccounts(p, ok)
       \/ \E ok \in BOOLEAN : FetchPage(p, ok)
       \/ \E ok \in BOOLEAN : SaveDelete(p, ok)
       \/ \E ok \in BOOLEAN : SaveInsert(p, ok)
  \/ \E d \in TickSteps : Tick(d)
  \/ LedgerChange

\* ------------------------------------------------------------------------
\* financial-analyst/index.js: analyze, the tool-call loop, and
\* claude-client.js: createMessageWithRetry
\* ------------------------------------------------------------------------

MAX_TOOL_ITERATIONS == 10

maxRetries == 3

TextBlock(text) == [type |-> "text", text |-> text]

ToolUseBlock(id, name) == [type |-> "tool_use", id |-> id, name |-> name]

\* what the model may answer to a request
ModelResponses ==
  { [stop_reason |-> "tool_use",
     content |-> << TextBlock("Let me look that up."),
                    ToolUseBlock("toolu_a", "account_balance") >>],
    [stop_reason |-> "tool_use",
     content |-> << ToolUseBlock("toolu_b", "find_accounts"),
                    TextBlock("and then"),
                    ToolUseBlock("toolu_c", "no_such_tool") >>],
    [stop_reason |-> "end_turn",
     content |-> << TextBlock("Cash is 60.") >>],
    [stop_reason |-> "max_tokens",
     content |-> << TextBlock("Revenue:"), TextBlock("Expenses:") >>],
    [stop_reason |-> "end_turn", content |-> << >>],
    [stop_reason |-> "end_turn",
     content |-> << TextBlock(""), ToolUseBlock("toolu_d", "account_balance") >>] }

\* error.status of a failed createMessage: 0 is an error that carries none
\* (a network failure, the missing API key of initialize())
ErrorStatuses == {401, 429, 529, 500, 0}

\* the keys of toolImplementations (the tools of the model)
ToolNames == {"account_balance", "find_accounts"}

\* toolImplementations is an object literal: toolImplementations[name] also
\* finds what it inherits from Object.prototype. Called as tool(input), with
\* no receiver, these throw a TypeError (__proto__ is no function, the others
\* need a receiver) ...
InheritedThrowing ==
  {"__proto__", "valueOf", "hasOwnProperty", "toLocaleString", "isPrototypeOf",
   "propertyIsEnumerable"}

\* ... and these return: constructor is Object, and Object(input) is the input
\* itself; toString gives the string "[object Undefined]"
InheritedReturning == {"constructor", "toString"}

\* tools.execute(name, input) (tools, execute): what it resolves to, a string
\* as the record of it. throws: the tools whose implementation throws or
\* returns no object.
Execute(name, throws) ==
  IF name = "constructor" THEN [returned |-> "input"]
  ELSE IF name = "toString" THEN [returned |-> "[object Undefined]"]
  ELSE IF name \in InheritedThrowing
  THEN [is_error |-> TRUE, error |-> "Tool execution failed", tool_name |-> name]
  ELSE IF name \notin ToolNames
  THEN [is_error |-> TRUE, error |-> "Unknown tool", tool_name |-> name]
  ELSE IF name \in throws
       THEN [is_error |-> TRUE, error |-> "Tool execution failed", tool_name |-> name]
       ELSE [is_error |-> FALSE, error |-> NoStr, tool_name |-> name]

\* JSON.stringify(result): a string, not the object
Stringify(result) == << "json", result >>

\* a tool result that names the tool where the block's id belongs
ToolResult_ByName(block, result) ==
  [type |-> "tool_result", tool_use_id |-> block.name, content |-> Stringify(result)]

\* { type: 'tool_result', tool_use_id: block.id, content: JSON.stringify(result) }
ToolResult(block, result) ==
  [type |-> "tool_result", tool_use_id |-> block.id, content |-> Stringify(result)]

\* the index of the first tool_use block of content after index i, 0 for none:
\* for (const block of response.content) if (block.type === 'tool_use')
NextToolUse(content, i) ==
  LET later == {j \in DOMAIN content : j > i /\ content[j].type = "tool_use"}
  IN IF later = {} THEN 0 ELSE CHOOSE j \in later : \A k \in later : j <= k

\* texts.join('\n')
RECURSIVE Join(_)
Join(texts) ==
  IF texts = <<>> THEN ""
  ELSE IF Len(texts) = 1 THEN texts[1]
  ELSE texts[1] \o "\n" \o Join(Tail(texts))

IsText(block) == block.type = "text"

\* a text content that is the first text block alone
TextContent_First(content) ==
  LET texts == SelectSeq(content, IsText)
  IN IF texts = <<>> THEN "" ELSE texts[1].text

\* content.filter(block => block.type === 'text').map(block => block.text).join('\n')
TextContent(content) ==
  LET texts == SelectSeq(content, IsText)
  IN Join([i \in DOMAIN texts |-> texts[i].text])

\* formatters/slack-blocks.js: formatResponse(text), formatError(message)
formatResponse(text) == [text |-> text, is_error |-> FALSE]

formatError(message) == [text |-> message, is_error |-> TRUE]

\* a catch that hands the error on where a response is due
ErrorResponse_Rethrow(status) == [thrown |-> status]

\* a catch that answers every error with the generic message
ErrorResponse_Generic(status) ==
  formatError("I encountered an error while analyzing your question.")

\* catch (error) of analyze: the response for an error of the model call
ErrorResponse(status) ==
  IF status = 401 THEN formatError("Authentication error with AI service.")
  ELSE IF status = 429 THEN formatError("The AI service is currently busy.")
  ELSE IF status = 529 THEN formatError("The AI service is temporarily overloaded.")
  ELSE formatError("I encountered an error while analyzing your question.")

TookTooLong == formatError("The analysis took too long.")

UnableToGenerate == formatError("I was unable to generate a response.")

\* a loop condition that lets one more iteration through
LoopContinues_Inclusive(iteration) == iteration <= MAX_TOOL_ITERATIONS

\* while (iteration < MAX_TOOL_ITERATIONS)
LoopContinues(iteration) == iteration < MAX_TOOL_ITERATIONS

\* a retry condition that also retries after the last attempt
Retryable_Always(status, attempt) == status \in {429, 529}

\* (error.status === 429 || error.status === 529) && attempt < maxRetries - 1
Retryable(status, attempt) == status \in {429, 529} /\ attempt < maxRetries - 1

RECURSIVE Pow2(_)
Pow2(n) == IF n = 0 THEN 1 ELSE 2 * Pow2(n - 1)

\* Math.pow(2, attempt) * 1000 for 429, Math.pow(2, attempt) * 2000 for 529
WaitTime(status, attempt) == Pow2(attempt) * (IF status = 429 THEN 1000 ELSE 2000)

\* analyze has not been called
NoLoop ==
  [pc |-> "idle", messages |-> <<>>, iteration |-> 0, response |-> None,
   block |-> 0, toolResults |-> <<>>, attempt |-> 0, outcome |-> None]

\* modelCalls: the calls of createMessageWithRetry; of the latest of them,
\* attempts: its calls of createMessage, failures: the errors of those that
\* failed, waits: its sleeps, thrown: the error it threw; executed: the blocks
\* handed to tools.execute for the latest response; finals: the model calls
\* that did not end in a tool_use response
NoTrace ==
  [modelCalls |-> 0, attempts |-> 0, failures |-> <<>>, waits |-> <<>>,
   thrown |-> None, executed |-> <<>>, finals |-> 0]

\* the error of the n-th attempt of a model call
ApiError(status, n) == [status |-> status, attempt |-> n]

\* the top of the while loop: the next model call, or the ceiling (:249-263, :325-328)
Iterate(l, t) ==
  IF LoopContinues(l.iteration)
  THEN [loop |-> [l EXCEPT !.pc = "model", !.iteration = @ + 1, !.attempt = 0,
                           !.response = None, !.block = 0, !.toolResults = <<>>],
        trace |-> [t EXCEPT !.modelCalls = @ + 1, !.attempts = 1,
                            !.failures = <<>>, !.waits = <<>>]]
  ELSE [loop |-> [l EXCEPT !.pc = "done", !.outcome = Some(TookTooLong)],
        trace |-> t]

\* the for loop over the blocks has ended: both messages are pushed (:287-296)
PushResults(l, t) ==
  Iterate([l EXCEPT !.messages =
             @ \o << [role |-> "assistant", content |-> l.response.content],
                     [role |-> "user", content |-> l.toolResults] >>], t)

\* the for loop over response.content from the block after index i (:271-285)
ForBlocks(l, t, i) ==
  LET j == NextToolUse(l.response.content, i)
  IN IF j = 0 THEN PushResults(l, t)
     ELSE [loop |-> [l EXCEPT !.pc = "tool", !.block = j],
           trace |-> [t EXCEPT !.executed = Append(@, l.response.content[j])]]

\* analyze(question, context) is called and runs to its first await (:233-256)
Analyze ==
  /\ loop.pc = "idle"
  /\ LET n == Iterate([NoLoop EXCEPT !.messages =
                         << [role |-> "user", content |-> "question"] >>], NoTrace)
     IN loop' = n.loop /\ trace' = n.trace
  /\ UNCHANGED toolThrows
  /\ UNCHANGED otherThanLoop

\* createMessage resolves with the model's response r (claude-client.js:55,
\* index.js:256-323)
ModelResponds(r) ==
  /\ loop.pc = "model"
  /\ IF r.stop_reason = "tool_use"
     THEN LET n == ForBlocks([loop EXCEPT !.response = r],
                             [trace EXCEPT !.executed = <<>>], 0)
          IN loop' = n.loop /\ trace' = n.trace
     ELSE /\ loop' = [loop EXCEPT
                        !.pc = "done",
                        !.response = r,
                        !.outcome = IF TextContent(r.content) = ""
                                    THEN Some(UnableToGenerate)
                                    ELSE Some(formatResponse(TextContent(r.content)))]
          /\ trace' = [trace EXCEPT !.finals = @ + 1]
  /\ UNCHANGED toolThrows
  /\ UNCHANGED otherThanLoop

\* createMessage rejects with an error of the given status
\* (claude-client.js:56-73, index.js:330-354)
ModelFails(status) ==
  /\ loop.pc = "model"
  /\ LET error == ApiError(status, trace.attempts)
         t == [trace EXCEPT !.failures = Append(@, error)]
     IN IF Retryable(status, loop.attempt)
        THEN /\ loop' = [loop EXCEPT !.pc = "sleep"]
             /\ trace' = [t EXCEPT !.waits = Append(@, WaitTime(status, loop.attempt))]
        ELSE /\ loop' = [loop EXCEPT !.pc = "done",
                                     !.outcome = Some(ErrorResponse(error.status))]
             /\ trace' = [t EXCEPT !.thrown = Some(error), !.finals = @ + 1]
  /\ UNCHANGED toolThrows
  /\ UNCHANGED otherThanLoop

\* sleep(waitTime) is over: continue, attempt++, attempt < maxRetries
\* (claude-client.js:53, :62, :70, :77)
Wake ==
  /\ loop.pc = "sleep"
  /\ IF loop.attempt + 1 < maxRetries
     THEN /\ loop' = [loop EXCEPT !.pc = "model", !.attempt = @ + 1]
          /\ trace' = [trace EXCEPT !.attempts = @ + 1]
     ELSE /\ loop' = [loop EXCEPT !.pc = "done", !.attempt = @ + 1,
                                  !.outcome = Some(ErrorResponse(0))]
          /\ trace' = [trace EXCEPT !.thrown = Some(ApiError(0, 0)), !.finals = @ + 1]
  /\ UNCHANGED toolThrows
  /\ UNCHANGED otherThanLoop

\* tools.execute(block.name, block.input) resolves (:276-283), and the for
\* loop goes on
ToolReturns ==
  /\ loop.pc = "tool"
  /\ LET block == loop.response.content[loop.block]
         result == Execute(block.name, toolThrows)
         n == ForBlocks([loop EXCEPT !.toolResults = Append(@, ToolResult(block, result))],
                        trace, loop.block)
     IN loop' = n.loop /\ trace' = n.trace
  /\ UNCHANGED toolThrows
  /\ UNCHANGED otherThanLoop

LoopInit ==
  /\ loop = NoLoop
  /\ trace = NoTrace
  /\ toolThrows \in SUBSET ToolNames

LoopNext ==
  \/ Analyze
  \/ \E r \in ModelResponses : ModelResponds(r)
  \/ \E status \in ErrorStatuses : ModelFails(status)
  \/ Wake
  \/ ToolReturns

\* ------------------------------------------------------------------------
\* tools.execute on its own, for every name the model may send
\* ------------------------------------------------------------------------

\* block.name of a tool_use block: the model is free to send any string
BlockNames ==
  ToolNames \cup InheritedThrowing \cup InheritedReturning
    \cup {"no_such_tool", "Account_Balance", ""}

ExecInit ==
  /\ execName \in BlockNames
  /\ toolThrows \in SUBSET ToolNames
  /\ execResult = None
  /\ execContent = None

\* const result = await tools.execute(block.name, block.input) (:276)
ExecuteTool ==
  /\ execResult = None
  /\ execResult' = Some(Execute(execName, toolThrows))
  /\ UNCHANGED << execName, execContent, toolThrows >>
  /\ UNCHANGED otherThanExec

\* toolResults.push({ ..., content: JSON.stringify(result) }) (:278-282)
PushToolResult ==
  /\ execResult # None
  /\ execContent = None
  /\ execContent' =
       Some(ToolResult(ToolUseBlock("toolu_a", execName), execResult[1]).content)
  /\ UNCHANGED << execName, execResult, toolThrows >>
  /\ UNCHANGED otherThanExec

ExecNext == ExecuteTool \/ PushToolResult

\* ------------------------------------------------------------------------
\* The Balance Calculator on one account (workflows/index.js:386-406)
\* ------------------------------------------------------------------------

\* the spellings of acc.type the ledger may send; NoStr is a missing type
TypeStrings ==
  {"ASSET", "asset", "EXPENSE", "Expense", "LIABILITY", "Liability", "liability",
   "EQUITY", "equity", "REVENUE", "Revenue", "rEvEnUe", "INCOME", "Income",
   "income", "CONTRA", "Contra", NoStr}

\* sums of debits or credits after the scan: NaN once an amount was no number
SumValues == {Num(0), Num(40), Num(100), NaN}

CalcInit ==
  /\ calcInput \in
       [acc : {Account("21001", "Some Account", t, "Sub", "ACTIVE") : t \in TypeStrings},
        b : [debits : SumValues, credits : SumValues, transactions : {2}]]
  /\ calcResult = None

\* for (const [code, b] of Object.entries(balances)) results[code] = {...}
Compute ==
  /\ calcResult = None
  /\ calcResult' =
       Some(FinalBalances(<< calcInput.acc >>,
                          [c \in {calcInput.acc.code} |-> calcInput.b])[calcInput.acc.code])
  /\ UNCHANGED << calcInput, otherThanCalc >>

CalcNext == Compute

\* ------------------------------------------------------------------------
\* The aggregation over journal-entry pages (workflows/index.js:355-373)
\* ------------------------------------------------------------------------

\* data.journal_entries of one page holding the items
Page(items) == [journal_entries |-> << [items |-> items] >>]

\* pages of journal entries: three debits of 0.1, 0.2 and 0.3 to account
\* 11001, and a page of whole amounts
AggPages ==
  { Page(<< Item("11001", "DEBIT", RawDec(1)) >>),
    Page(<< Item("11001", "DEBIT", RawDec(2)) >>),
    Page(<< Item("11001", "DEBIT", RawDec(3)) >>),
    Page(<< Item("11001", "CREDIT", RawNum(40)),
            Item("99999", "DEBIT", RawNum(5)),
            Item("21001", "credit", RawNum(3)) >>) }

\* the orders in which the pages of a set can arrive
Orders(pages) ==
  {o \in [1..Cardinality(pages) -> pages] :
     \A i, j \in DOMAIN o : i # j => o[i] # o[j]}

AggInit ==
  /\ aggOrder \in UNION {Orders(S) : S \in SUBSET AggPages \ {{}}}
  /\ aggPos = 0
  /\ aggBalances = InitBalances(LedgerAccounts(1))

\* the entries of the next page are added to the running sums (:355-373)
AggregatePage ==
  /\ aggPos < Len(aggOrder)
  /\ aggPos' = aggPos + 1
  /\ aggBalances' = ProcessEntries(aggBalances, aggOrder[aggPos + 1].journal_entries)
  /\ UNCHANGED << aggOrder, otherThanAgg >>

AggNext == AggregatePage

\* ------------------------------------------------------------------------
\* One caller scanning long ledgers (workflows/index.js:341-416)
\* ------------------------------------------------------------------------

\* the numbers of pages of the long ledgers: around the ceiling of 500 pages
ScanLedgerSizes == {1, 3, 499, 500, 501, 650}

ScanInit ==
  /\ ledger \in {LongLedger(n) : n \in ScanLedgerSizes}
  /\ CacheStart

ScanNext ==
  \/ Call(1, "refreshBalanceCache", TRUE, <<>>)
  \/ \E ok \in BOOLEAN : FetchAccounts(1, ok)
  \/ \E ok \in BOOLEAN : FetchPage(1, ok)
  \/ \E ok \in BOOLEAN : SaveDelete(1, ok)
  \/ \E ok \in BOOLEAN : SaveInsert(1, ok)

\* ------------------------------------------------------------------------
\* workflows/index.js: findAccounts
\* ------------------------------------------------------------------------

\* A text is the sequence of its characters; << >> is the empty string, and
\* also a field that is missing: findAccounts treats both alike (search &&,
\* acc.name || '', acc.type?., acc.code?.).
UpperLetters ==
  << "A", "B", "C", "D", "E", "F", "G", "H", "I", "J", "K", "L", "M",
     "N", "O", "P", "Q", "R", "S", "T", "U", "V", "W", "X", "Y", "Z" >>

LowerLetters ==
  << "a", "b", "c", "d", "e", "f", "g", "h", "i", "j", "k", "l", "m",
     "n", "o", "p", "q", "r", "s", "t", "u", "v", "w", "x", "y", "z" >>

\* the position of character c in the alphabet abc, 0 if it is not there
IndexIn(abc, c) ==
  IF \E i \in DOMAIN abc : abc[i] = c THEN CHOOSE i \in DOMAIN abc : abc[i] = c ELSE 0

\* String.prototype.toLowerCase
toLowerCase(s) ==
  [i \in DOMAIN s |->
     IF IndexIn(UpperLetters, s[i]) = 0 THEN s[i]
     ELSE LowerLetters[IndexIn(UpperLetters, s[i])]]

\* String.prototype.toUpperCase, on a text
UpperCase(s) ==
  [i \in DOMAIN s |->
     IF IndexIn(LowerLetters, s[i]) = 0 THEN s[i]
     ELSE UpperLetters[IndexIn(LowerLetters, s[i])]]

RECURSIVE trimStart(_)
trimStart(s) == IF s # <<>> /\ Head(s) = " " THEN trimStart(Tail(s)) ELSE s

RECURSIVE trimEnd(_)
trimEnd(s) ==
  IF s # <<>> /\ s[Len(s)] = " " THEN trimEnd(SubSeq(s, 1, Len(s) - 1)) ELSE s

\* String.prototype.trim
trim(s) == trimEnd(trimStart(s))

\* String.prototype.includes
includes(s, pat) ==
  \E i \in 1..(Len(s) - Len(pat) + 1) : SubSeq(s, i, i + Len(pat) - 1) = pat

\* the texts of the tables below and of the chart, character by character
T_Cash_Spaced == << " ", "C", "a", "s", "h" >>

T_110 == << "1", "1", "0" >>

T_AccountsPayable == << "A", "c", "c", "o", "u", "n", "t", "s", " ", "P", "a", "y",
      "a", "b", "l", "e" >>

T_AccountsPayable_lc == << "a", "c", "c", "o", "u", "n", "t", "s", " ", "p", "a", "y",
      "a", "b", "l", "e" >>

T_AccountsReceivable == << "A", "c", "c", "o", "u", "n", "t", "s", " ", "R", "e", "c",
      "e", "i", "v", "a", "b", "l", "e" >>

T_AccountsReceivable_lc == << "a", "c", "c", "o", "u", "n", "t", "s", " ", "r", "e",
      "c", "e", "i", "v", "a", "b", "l", "e" >>

T_Accruals_lc == << "a", "c", "c", "r", "u", "a", "l", "s" >>

T_Accrued == << "A", "c", "c", "r", "u", "e", "d" >>

T_Accrued_lc == << "a", "c", "c", "r", "u", "e", "d" >>

T_Ap_lc == << "a", "p" >>

T_Ar_lc == << "a", "r" >>

T_Asset_UC == << "A", "S", "S", "E", "T" >>

T_Asset_lc == << "a", "s", "s", "e", "t" >>

T_Bank == << "B", "a", "n", "k" >>

T_Bank_lc == << "b", "a", "n", "k" >>

T_Bank_Spaced == << "b", "a", "n", "k", " " >>

T_Cash == << "C", "a", "s", "h" >>

T_Cash_lc == << "c", "a", "s", "h" >>

T_CashReceivableClearing == << "C", "a", "s", "h", " ", "R", "e", "c", "e", "i", "v",
      "a", "b", "l", "e", " ", "C", "l", "e", "a", "r", "i", "n", "g" >>

T_Clearing_lc == << "c", "l", "e", "a", "r", "i", "n", "g" >>

T_Deferred_lc == << "d", "e", "f", "e", "r", "r", "e", "d" >>

T_DeferredRevenue == << "D", "e", "f", "e", "r", "r", "e", "d", " ", "R", "e", "v",
      "e", "n", "u", "e" >>

T_DeferredRevenue_lc == << "d", "e", "f", "e", "r", "r", "e", "d", " ", "r", "e", "v",
      "e", "n", "u", "e" >>

T_Fa_lc == << "f", "a" >>

T_FixedAssets == << "F", "i", "x", "e", "d", " ", "A", "s", "s", "e", "t", "s" >>

T_FixedAssets_lc == << "f", "i", "x", "e", "d", " ", "a", "s", "s", "e", "t", "s" >>

T_InTransit_lc == << "i", "n", " ", "t", "r", "a", "n", "s", "i", "t" >>

T_JpMorganChecking == << "J", "P", " ", "M", "o", "r", "g", "a", "n", " ", "C", "h",
      "e", "c", "k", "i", "n", "g" >>

T_Liability_UC == << "L", "I", "A", "B", "I", "L", "I", "T", "Y" >>

T_Liquid_lc == << "l", "i", "q", "u", "i", "d" >>

T_Liquidity_lc == << "l", "i", "q", "u", "i", "d", "i", "t", "y" >>

T_MoneyInTransit_lc == << "m", "o", "n", "e", "y", " ", "i", "n", " ", "t", "r", "a",
      "n", "s", "i", "t" >>

T_NonSpace == << "n", "o", "n", " " >>

T_NonHyphen == << "n", "o", "n", "-" >>

T_NonBankDeposits == << "N", "o", "n", "-", "B", "a", "n", "k", " ", "D", "e", "p",
      "o", "s", "i", "t", "s" >>

T_NonCashReserve == << "N", "o", "n", "-", "C", "a", "s", "h", " ", "R", "e", "s", "e",
      "r", "v", "e" >>

T_OldCashAccount == << "O", "l", "d", " ", "C", "a", "s", "h", " ", "A", "c", "c", "o",
      "u", "n", "t" >>

T_OtherAssets == << "O", "t", "h", "e", "r", " ", "A", "s", "s", "e", "t", "s" >>

T_Payable_lc == << "p", "a", "y", "a", "b", "l", "e" >>

T_Payables_lc == << "p", "a", "y", "a", "b", "l", "e", "s" >>

T_PettyCash == << "P", "e", "t", "t", "y", " ", "c", "a", "s", "h" >>

T_Prepaid == << "P", "r", "e", "p", "a", "i", "d" >>

T_Prepaid_lc == << "p", "r", "e", "p", "a", "i", "d" >>

T_Prepaids_lc == << "p", "r", "e", "p", "a", "i", "d", "s" >>

T_Receivable_lc == << "r", "e", "c", "e", "i", "v", "a", "b", "l", "e" >>

T_Receivables_lc == << "r", "e", "c", "e", "i", "v", "a", "b", "l", "e", "s" >>

T_Reserve_lc == << "r", "e", "s", "e", "r", "v", "e" >>

T_Revenue == << "R", "e", "v", "e", "n", "u", "e" >>

T_Revenue_lc == << "r", "e", "v", "e", "n", "u", "e" >>

T_ShopifyFundsClearingFondue == << "S", "h", "o", "p", "i", "f", "y", " ", "F", "u",
      "n", "d", "s", " ", "C", "l", "e", "a", "r", "i", "n", "g", " ", "(", "F", "o",
      "n", "d", "u", "e", ")" >>

T_StripeMoneyInTransitPostscript == << "S", "t", "r", "i", "p", "e", " ", "M", "o",
      "n", "e", "y", " ", "i", "n", " ", "T", "r", "a", "n", "s", "i", "t", " ", "(",
      "P", "o", "s", "t", "s", "c", "r", "i", "p", "t", ")" >>

\* SEARCH_TO_SUBTYPE_MAP, a single subtype taken as the array of it (:180)
SEARCH_TO_SUBTYPE_MAP ==
     T_Cash_lc :> << T_Cash, T_Bank >>
  @@ T_Bank_lc :> << T_Bank >>
  @@ T_Liquid_lc :> << T_Cash, T_Bank >>
  @@ T_Liquidity_lc :> << T_Cash, T_Bank >>
  @@ T_Ar_lc :> << T_AccountsReceivable >>
  @@ T_AccountsReceivable_lc :> << T_AccountsReceivable >>
  @@ T_Receivable_lc :> << T_AccountsReceivable >>
  @@ T_Receivables_lc :> << T_AccountsReceivable >>
  @@ T_Ap_lc :> << T_AccountsPayable >>
  @@ T_AccountsPayable_lc :> << T_AccountsPayable >>
  @@ T_Payable_lc :> << T_AccountsPayable >>
  @@ T_Payables_lc :> << T_AccountsPayable >>
  @@ T_Prepaid_lc :> << T_Prepaid >>
  @@ T_Prepaids_lc :> << T_Prepaid >>
  @@ T_Accrued_lc :> << T_Accrued >>
  @@ T_Accruals_lc :> << T_Accrued >>
  @@ T_Revenue_lc :> << T_Revenue >>
  @@ T_DeferredRevenue_lc :> << T_DeferredRevenue >>
  @@ T_Deferred_lc :> << T_DeferredRevenue >>
  @@ T_FixedAssets_lc :> << T_FixedAssets >>
  @@ T_Fa_lc :> << T_FixedAssets >>

\* the exclusion patterns shared by the four search terms
CashExclusions ==
  << T_Receivable_lc, T_Receivables_lc, T_Clearing_lc, T_MoneyInTransit_lc, T_InTransit_lc >>

\* SEARCH_EXCLUSIONS
SEARCH_EXCLUSIONS ==
     T_Cash_lc :> CashExclusions
  @@ T_Liquid_lc :> CashExclusions
  @@ T_Liquidity_lc :> CashExclusions
  @@ T_Bank_lc :> CashExclusions

\* SUBTYPE_EXCLUSIONS
SUBTYPE_EXCLUSIONS ==
     T_Cash_lc :> SEARCH_EXCLUSIONS[T_Cash_lc]
  @@ T_Bank_lc :> SEARCH_EXCLUSIONS[T_Bank_lc]

\* ACCOUNT_CODE_LISTS
ACCOUNT_CODE_LISTS ==
  T_Cash_lc :>
    << << "1", "1", "0", "0", "1" >>,
       << "1", "1", "0", "0", "3" >>,
       << "1", "1", "0", "1", "6" >>,
       << "1", "1", "0", "1", "7" >>,
       << "1", "1", "0", "1", "8" >>,
       << "1", "1", "0", "2", "3" >>,
       << "1", "1", "0", "2", "4" >>,
       << "1", "1", "0", "2", "8" >>,
       << "1", "1", "0", "2", "9" >>,
       << "1", "1", "0", "3", "1" >>,
       << "1", "1", "0", "3", "3" >>,
       << "1", "1", "0", "3", "4" >>,
       << "1", "1", "0", "3", "5" >> >>

\* data.accounts as findAccounts gets it from getAllAccounts(): accounts of the
\* hard-coded code list under the names its comments give them, accounts whose
\* names carry an exclusion pattern or a negated search term, accounts that
\* are not active, and one with no name, type or subtype
FindChart ==
  << Account(<< "1", "1", "0", "0", "1" >>, T_JpMorganChecking, T_Asset_UC, T_Bank, "ACTIVE"),
     Account(<< "1", "1", "0", "1", "6" >>, T_ShopifyFundsClearingFondue, T_Asset_UC, T_Bank, "ACTIVE"),
     Account(<< "1", "1", "0", "2", "8" >>, T_StripeMoneyInTransitPostscript, T_Asset_UC, T_Cash, "INACTIVE"),
     Account(<< "1", "1", "0", "3", "3" >>, T_PettyCash, T_Asset_UC, T_Cash, "ACTIVE"),
     Account(<< "1", "1", "0", "5", "0" >>, T_CashReceivableClearing, T_Asset_lc, T_Cash, "ACTIVE"),
     Account(<< "1", "1", "0", "6", "0" >>, T_NonCashReserve, T_Asset_UC, T_OtherAssets, "ACTIVE"),
     Account(<< "1", "1", "0", "7", "0" >>, T_OldCashAccount, T_Asset_UC, T_Cash, "INACTIVE"),
     Account(<< "1", "2", "0", "0", "1" >>, T_NonBankDeposits, T_Asset_UC, T_Bank, "ACTIVE"),
     Account(<< "1", "3", "0", "0", "1" >>, T_AccountsReceivable, T_Asset_UC, T_AccountsReceivable, "ACTIVE"),
     Account(<< "2", "1", "0", "0", "1" >>, T_AccountsPayable, T_Liability_UC, T_AccountsPayable, "ACTIVE"),
     Account(<< "4", "1", "0", "0", "1" >>, <<>>, <<>>, <<>>, "ACTIVE") >>

\* the criteria findAccounts is called with
SearchTerms == { <<>>, T_Cash_lc, T_Cash_Spaced, T_Bank_lc, T_Bank, T_Liquid_lc, T_Reserve_lc, T_110 }

TypeFilters == { <<>>, T_Asset_UC, T_Asset_lc, T_Liability_UC }

SubtypeFilters == { <<>>, T_Cash, T_Bank_lc, T_Bank_Spaced, T_AccountsReceivable }

CodeFilters == { <<>>, << << "1", "1", "0", "0", "1" >>, << "1", "1", "0", "1", "6" >>, << "1", "1", "0", "6", "0" >> >>, << << "2", "1", "0", "0", "1" >> >> }

Criteria ==
  [search : SearchTerms, type : TypeFilters, subtype : SubtypeFilters,
   codes : CodeFilters]

\* a filter that lets accounts of every status through
IsActive_AnyStatus(acc) == TRUE

\* acc.status !== 'ACTIVE' ends the callback with false (:253)
IsActive(acc) == acc.status = "ACTIVE"

\* the smart mapping applies: search && !subtype && (!codes || codes.length === 0)
SmartMapping(criteria) ==
  criteria.search # <<>> /\ criteria.subtype = <<>> /\ criteria.codes = <<>>

\* the search term has a list of account codes (:174)
UsesCodeList(criteria) ==
  SmartMapping(criteria)
    /\ trim(toLowerCase(criteria.search)) \in DOMAIN ACCOUNT_CODE_LISTS

\* the search term has no list of codes and maps to subtypes (:180-183)
UsesSubtypeMap(criteria) ==
  /\ SmartMapping(criteria)
  /\ ~UsesCodeList(criteria)
  /\ trim(toLowerCase(criteria.search)) \in DOMAIN SEARCH_TO_SUBTYPE_MAP

\* a resolution that forgets the type filter
Resolved_IgnoringType(criteria) ==
  [codes |-> criteria.codes, search |-> criteria.search, type |-> <<>>,
   subtypes |-> IF criteria.subtype # <<>> THEN << criteria.subtype >> ELSE <<>>,
   exclusions |-> <<>>]

\* codes, search, subtypes and exclusions as they stand when the filter starts
\* (:163-207); << >> is null
Resolved(criteria) ==
  LET searchLower == trim(toLowerCase(criteria.search))
      subtypeLower == trim(toLowerCase(criteria.subtype))
  IN [codes |-> IF UsesCodeList(criteria) THEN ACCOUNT_CODE_LISTS[searchLower]
                ELSE criteria.codes,
      search |-> IF UsesCodeList(criteria) \/ UsesSubtypeMap(criteria) THEN <<>>
                 ELSE criteria.search,
      type |-> criteria.type,
      subtypes |-> IF UsesSubtypeMap(criteria) THEN SEARCH_TO_SUBTYPE_MAP[searchLower]
                   ELSE IF criteria.subtype # <<>> THEN << criteria.subtype >>
                   ELSE <<>>,
      exclusions |-> IF UsesSubtypeMap(criteria)
                     THEN IF searchLower \in DOMAIN SEARCH_EXCLUSIONS
                          THEN SEARCH_EXCLUSIONS[searchLower] ELSE <<>>
                     ELSE IF criteria.subtype # <<>>
                             /\ subtypeLower \in DOMAIN SUBTYPE_EXCLUSIONS
                     THEN SUBTYPE_EXCLUSIONS[subtypeLower]
                     ELSE <<>>]

\* the callback of accounts.filter (:209-256), its checks in their order
Keeps(acc, r) ==
  LET nameLower == toLowerCase(acc.name)
      searchLower == toLowerCase(r.search)
  IN /\ r.codes # <<>> => acc.code \in Range(r.codes)
     /\ r.type # <<>> => UpperCase(acc.type) = UpperCase(r.type)
     /\ r.subtypes # <<>> =>
          \E i \in DOMAIN r.subtypes :
            toLowerCase(r.subtypes[i]) = toLowerCase(acc.subtype)
     /\ \A i \in DOMAIN r.exclusions :
          ~includes(nameLower, toLowerCase(r.exclusions[i]))
     /\ r.search # <<>> =>
          /\ ~includes(nameLower, T_NonHyphen \o searchLower)
          /\ ~includes(nameLower, T_NonSpace \o searchLower)
          /\ includes(nameLower, searchLower) \/ includes(acc.code, r.search)
     /\ IsActive(acc)

\* findAccounts(criteria) over the accounts getAllAccounts() returned
findAccounts(accounts, criteria) ==
  LET r == Resolved(criteria)
      Test(acc) == Keeps(acc, r)
  IN SelectSeq(accounts, Test)

FindInit ==
  /\ findCriteria \in Criteria
  /\ findResult = None

\* findAccounts is called with the criteria and returns
FindAccounts ==
  /\ findResult = None
  /\ findResult' = Some(findAccounts(FindChart, findCriteria))
  /\ UNCHANGED findCriteria
  /\ UNCHANGED otherThanFind

FindNext == FindAccounts

\* ------------------------------------------------------------------------
\* workflows/index.js: accountBalance
\* ------------------------------------------------------------------------

Digits == << "0", "1", "2", "3", "4", "5", "6", "7", "8", "9" >>

\* the number an account code spells: the keys of an object that spell an
\* integer are enumerated in ascending order of it
RECURSIVE CodeNumber(_)
CodeNumber(code) ==
  IF code = <<>> THEN 0
  ELSE 10 * CodeNumber(SubSeq(code, 1, Len(code) - 1))
         + IndexIn(Digits, code[Len(code)]) - 1

\* Math.abs, on the whole numbers of the model
Abs(n) == IF n < 0 THEN 0 - n ELSE n

\* the chart without its liability accounts
NotLiability(acc) == UpperCase(acc.type) # T_Liability_UC

\* the charts GET /accounts may hold
WfCharts == { FindChart, SelectSeq(FindChart, NotLiability) }

\* the balance the ledger gives the account of a code
WfAmount(code) ==
  CASE CodeNumber(code) = 11001 -> 500
    [] CodeNumber(code) = 11016 -> 0 - 120
    [] CodeNumber(code) = 11033 -> 35
    [] CodeNumber(code) = 11050 -> 0 - 35
    [] CodeNumber(code) = 12001 -> 77
    [] CodeNumber(code) = 13001 -> 1200
    [] CodeNumber(code) = 21001 -> 900
    [] OTHER -> 0

\* what getAllAccountBalances() returns for a chart: an entry for every
\* account; of the fields of an entry, code and balance
WfAllBalances(accounts) ==
  [code \in {accounts[i].code : i \in DOMAIN accounts} |->
     [code |-> code, balance |-> Num(WfAmount(code))]]

\* the entry that comes first once Object.values(balances) is sorted by
\* Math.abs(b.balance) - Math.abs(a.balance): the largest amount, and of
\* equal amounts the one enumerated first (the sort is stable)
FirstOf(entries) ==
  CHOOSE e \in entries :
    \A f \in entries \ {e} :
      \/ Abs(e.balance.v) > Abs(f.balance.v)
      \/ Abs(e.balance.v) = Abs(f.balance.v)
           /\ CodeNumber(e.code) < CodeNumber(f.code)

RECURSIVE SortedByBalance(_)
SortedByBalance(entries) ==
  IF entries = {} THEN <<>>
  ELSE << FirstOf(entries) >> \o SortedByBalance(entries \ {FirstOf(entries)})

\* results.reduce((sum, r) => sum + r.balance, 0)
RECURSIVE TotalBalance(_)
TotalBalance(results) ==
  IF results = <<>> THEN Num(0)
  ELSE Add(TotalBalance(SubSeq(results, 1, Len(results) - 1)),
           results[Len(results)].balance)

\* a validation that lets every input through
NoFilter_Never(input) == FALSE

\* the validation of accountBalance fails (:472)
NoFilter(input) ==
  input.search = <<>> /\ input.type = <<>> /\ input.subtype = <<>> /\ input.codes = <<>>

\* :473-477
NoFilterResult ==
  [error |-> "Please provide at least one filter: search (account name), type, subtype, or codes",
   is_error |-> TRUE,
   hint |-> "Examples: { search: \"cash\" }, { type: \"LIABILITY\" }, { subtype: \"Bank\" }, { codes: [\"11001\", \"11002\"] }"]

\* a no-match result without the hint
NoMatchResult_Bare(input) ==
  [error |-> "No accounts found matching your criteria", is_error |-> TRUE,
   criteria |-> input]

\* :486-491
NoMatchResult(input) ==
  [error |-> "No accounts found matching your criteria", is_error |-> TRUE,
   criteria |-> input,
   hint |-> "Try a broader search or check account names in Rillet"]

\* the catch of accountBalance (:524-531)
WorkflowFailedResult(input) == ("criteria" :> input) @@ WorkflowFailed

\* :504-522, without the formatted strings
AccountBalanceReport(input, balances) ==
  LET results == SortedByBalance(Range([c \in DOMAIN balances |-> balances[c]]))
  IN [workflow |-> "account_balance", criteria |-> input,
      accounts_found |-> Len(results), accounts |-> results,
      total_balance |-> TotalBalance(results)]

\* what accountBalance has caused so far: calls of getAllAccounts() and of
\* calculateBalances(), and whether one of them threw
NoEffects == [accountsReads |-> 0, calcCalls |-> 0, threw |-> FALSE]

WfInit ==
  /\ wfInput \in Criteria
  /\ wfLedger \in WfCharts
  /\ wfPc = "idle"
  /\ wfMatched = <<>>
  /\ wfOut = None
  /\ wfEffects = NoEffects

\* accountBalance(input) is called and runs to the await of findAccounts,
\* which awaits getAllAccounts() (:468-483, :162-163)
AccountBalanceCall ==
  /\ wfPc = "idle"
  /\ IF NoFilter(wfInput)
     THEN /\ wfPc' = "done"
          /\ wfOut' = Some(NoFilterResult)
          /\ UNCHANGED wfEffects
     ELSE /\ wfPc' = "find"
          /\ wfEffects' = [wfEffects EXCEPT !.accountsReads = @ + 1]
          /\ UNCHANGED wfOut
  /\ UNCHANGED << wfInput, wfLedger, wfMatched >>
  /\ UNCHANGED otherThanWf

\* getAllAccounts() answers, from its cache or from the ledger, and
\* findAccounts filters; with accounts found calculateBalances is called
\* (:483-501). ok: getAllAccounts() does not throw.
FindReturns(ok) ==
  /\ wfPc = "find"
  /\ LET matchedAccounts == findAccounts(wfLedger, wfInput)
     IN IF ~ok
        THEN /\ wfPc' = "done"
             /\ wfOut' = Some(WorkflowFailedResult(wfInput))
             /\ wfEffects' = [wfEffects EXCEPT !.threw = TRUE]
             /\ UNCHANGED wfMatched
        ELSE IF Len(matchedAccounts) = 0
        THEN /\ wfPc' = "done"
             /\ wfOut' = Some(NoMatchResult(wfInput))
             /\ UNCHANGED << wfMatched, wfEffects >>
        ELSE /\ wfPc' = "calc"
             /\ wfMatched' = matchedAccounts
             /\ wfEffects' = [wfEffects EXCEPT !.calcCalls = @ + 1]
             /\ UNCHANGED wfOut
  /\ UNCHANGED << wfInput, wfLedger >>
  /\ UNCHANGED otherThanWf

\* calculateBalances(accountCodes) answers and accountBalance returns
\* (:500-531). ok: it does not throw.
CalcReturns(ok) ==
  /\ wfPc = "calc"
  /\ wfPc' = "done"
  /\ LET accountCodes == [i \in DOMAIN wfMatched |-> wfMatched[i].code]
         balances == Project(WfAllBalances(wfLedger), accountCodes)
     IN wfOut' = IF ok THEN Some(AccountBalanceReport(wfInput, balances))
                 ELSE Some(WorkflowFailedResult(wfInput))
  /\ wfEffects' = [wfEffects EXCEPT !.threw = ~ok]
  /\ UNCHANGED << wfInput, wfLedger, wfMatched >>
  /\ UNCHANGED otherThanWf

WfNext ==
  \/ AccountBalanceCall
  \/ \E ok \in BOOLEAN : FindReturns(ok)
  \/ \E ok \in BOOLEAN : CalcReturns(ok)

\* ------------------------------------------------------------------------
\* The conversation store (financial-analyst/index.js:147-225) under the
\* handlers that call analyze (app.js:770-944)
\* ------------------------------------------------------------------------

\* the handlers that can be suspended in analyze at the same time
MaxHandlers == 2

\* the questions that arrive in one behaviour
MaxQuestions == 2

\* how often time advances in one behaviour
MaxAdvances == 3

Handlers == 1..MaxHandlers

\* financial-analyst/index.js:153
CONVERSATION_TTL_MS == 60 * 60 * 1000

\* the period of setInterval(cleanupOldConversations, ...), index.js:175
CleanupInterval == 10 * 60 * 1000

\* saveConversation, index.js:217
maxMessages == 20

\* the n-th advance of time: the instants are 0, 1, the TTL, the TTL + 1, ...
\* so that a conversation is seen at its TTL exactly and just past it
AdvanceBy(n) == IF n % 2 = 1 THEN 1 ELSE CONVERSATION_TTL_MS - 1

\* context.threadTs when the caller gives none
NoThread == 0

\* a thread the bot answered in before, and the questions answered in it
PriorThread == 1699

PriorQuestions == { 0, 9, 10 }

\* thinkingMsg.ts of the n-th slash command: a timestamp not used before
SlashThread(n) == 1700 + n

UserMessage(question) == [role |-> "user", content |-> question]

AssistantMessage(textContent) == [role |-> "assistant", content |-> textContent]

\* the history of a thread after n answered questions 1..n
PriorMessages(n) ==
  [i \in 1..(2 * n) |->
     IF i % 2 = 1 THEN UserMessage((i + 1) \div 2) ELSE AssistantMessage(i \div 2)]

\* the n-th question of the behaviour, and the text that answers it
QuestionNo(n) == 10 + n

\* a slice that keeps the first n elements
slice_First(messages, n) ==
  SubSeq(messages, 1, IF Len(messages) > n THEN n ELSE Len(messages))

\* a slice that keeps one message less
slice_Short(messages, n) ==
  LET len == Len(messages)
      start == IF len > n - 1 THEN len - (n - 1) ELSE 0
  IN SubSeq(messages, start + 1, len)

\* messages.slice(-n)
slice(messages, n) ==
  LET len == Len(messages)
      start == IF len > n THEN len - n ELSE 0
  IN SubSeq(messages, start + 1, len)

\* getConversation, index.js:201-206
getConversation(store, threadTs) ==
  IF threadTs = NoThread THEN <<>>
  ELSE IF threadTs \in DOMAIN store THEN store[threadTs].messages
  ELSE <<>>

\* saveConversation, index.js:213-225: the store after it
saveConversation(store, threadTs, messages, now) ==
  IF threadTs = NoThread THEN store
  ELSE [t \in DOMAIN store \cup {threadTs} |->
          IF t = threadTs
          THEN [messages |-> slice(messages, maxMessages), lastActivity |-> now]
          ELSE store[t]]

\* a sweep that also removes what has been inactive for the TTL exactly
cleanupOldConversations_AtTTL(store, now) ==
  LET kept == { t \in DOMAIN store :
                  ~(now - store[t].lastActivity >= CONVERSATION_TTL_MS) }
  IN [t \in kept |-> store[t]]

\* cleanupOldConversations, index.js:158-172: the store after it
cleanupOldConversations(store, now) ==
  LET kept == { t \in DOMAIN store :
                  ~(now - store[t].lastActivity > CONVERSATION_TTL_MS) }
  IN [t \in kept |-> store[t]]

\* a handler that is not running
NoCall ==
  [pc |-> "idle", threadTs |-> NoThread, question |-> 0,
   existingMessages |-> <<>>, messages |-> <<>>, iteration |-> 0,
   response |-> None]

\* the two messages a turn with tools pushes in iteration i (index.js:287-296):
\* the content blocks of the response, and the tool results
ToolTurn(i) ==
  << [role |-> "assistant", content |-> 100 + i],
     [role |-> "user", content |-> 200 + i] >>

\* a history to save that is the working messages of the loop
conversationToSave_Messages(call, textContent) ==
  call.messages \o << AssistantMessage(textContent) >>

\* conversationToSave, index.js:312-316
conversationToSave(call, textContent) ==
  call.existingMessages \o
    << UserMessage(call.question), AssistantMessage(textContent) >>

\* the threads whose parent message carries the bot's "asked:" context
BotThreads == {PriorThread} \cup { SlashThread(n) : n \in 1..convCount.slash }

ConvInit ==
  /\ \E n \in PriorQuestions :
       conversationStore =
         IF n = 0 THEN <<>>
         ELSE (PriorThread :> [messages |-> PriorMessages(n), lastActivity |-> 0])
  /\ convNow = 0
  /\ sweepDue = CleanupInterval
  /\ convCalls = [h \in Handlers |-> NoCall]
  /\ convCount = [slash |-> 0, reply |-> 0, advances |-> 0]
  /\ convEvent = [op |-> "none"]

\* analyze up to its first await, index.js:233-256: it reads the history and
\* suspends in the first model call
AnalyzeStarts(h, threadTs, question) ==
  LET existingMessages == getConversation(conversationStore, threadTs)
  IN /\ convCalls' = [convCalls EXCEPT ![h] =
                        [pc |-> "model", threadTs |-> threadTs,
                         question |-> question,
                         existingMessages |-> existingMessages,
                         messages |->
                           existingMessages \o << UserMessage(question) >>,
                         iteration |-> 1, response |-> None]]
     /\ convEvent' = [op |-> "getConversation", threadTs |-> threadTs,
                      returned |-> existingMessages]
     /\ UNCHANGED << conversationStore, convNow, sweepDue >>

\* the /fpabot command with a question, app.js:790-821: the awaits before
\* analyze touch none of this state; the thread is the new thinking message
SlashCommand(h) ==
  /\ convCalls[h].pc = "idle"
  /\ convCount.slash + convCount.reply < MaxQuestions
  /\ convCount' = [convCount EXCEPT !.slash = @ + 1]
  /\ AnalyzeStarts(h, SlashThread(convCount.slash + 1),
             QuestionNo(convCount.slash + convCount.reply + 1))
  /\ UNCHANGED otherThanConv

\* app.message for a reply in a thread of the bot, app.js:874-922
ThreadReply(h, thread_ts) ==
  /\ convCalls[h].pc = "idle"
  /\ thread_ts \in BotThreads
  /\ convCount.slash + convCount.reply < MaxQuestions
  /\ convCount' = [convCount EXCEPT !.reply = @ + 1]
  /\ AnalyzeStarts(h, thread_ts, QuestionNo(convCount.slash + convCount.reply + 1))
  /\ UNCHANGED otherThanConv

\* analyze is called with a question and no thread, index.js:233-235
\* (context = {})
AnalyzeWithoutThread(h) ==
  /\ convCalls[h].pc = "idle"
  /\ convCount.slash + convCount.reply < MaxQuestions
  /\ convCount' = [convCount EXCEPT !.reply = @ + 1]
  /\ AnalyzeStarts(h, NoThread, QuestionNo(convCount.slash + convCount.reply + 1))
  /\ UNCHANGED otherThanConv

\* the model call resolves with stop_reason tool_use, index.js:270-297: the
\* tools run, and the loop calls the model again or gives up at the ceiling
ToolUseTurn(h) ==
  LET call == convCalls[h]
  IN /\ call.pc = "model"
     /\ convCalls' = [convCalls EXCEPT ![h] =
          IF call.iteration < MAX_TOOL_ITERATIONS
          THEN [call EXCEPT !.iteration = @ + 1,
                            !.messages = @ \o ToolTurn(call.iteration)]
          ELSE [call EXCEPT !.pc = "done", !.response = Some(TookTooLong),
                            !.messages = @ \o ToolTurn(call.iteration)]]
     /\ convEvent' = [op |-> "none"]
     /\ UNCHANGED << conversationStore, convNow, sweepDue, convCount >>
     /\ UNCHANGED otherThanConv

\* the model call resolves with a final response, index.js:298-323; the text
\* that answers question q is q, and hasText is whether there is any
FinalResponse(h, hasText) ==
  LET call == convCalls[h]
      toSave == conversationToSave(call, call.question)
  IN /\ call.pc = "model"
     /\ IF hasText
        THEN /\ conversationStore' =
                  saveConversation(conversationStore, call.threadTs,
                                   toSave, convNow)
             /\ convCalls' = [convCalls EXCEPT ![h] =
                  [call EXCEPT !.pc = "done",
                               !.response = Some(formatResponse(call.question))]]
             /\ convEvent' = [op |-> "saveConversation",
                              threadTs |-> call.threadTs,
                              messages |-> toSave]
        ELSE /\ convCalls' = [convCalls EXCEPT ![h] =
                  [call EXCEPT !.pc = "done", !.response = Some(UnableToGenerate)]]
             /\ convEvent' = [op |-> "none"]
             /\ UNCHANGED conversationStore
     /\ UNCHANGED << convNow, sweepDue, convCount >>
     /\ UNCHANGED otherThanConv

\* the model call rejects, index.js:330-354
ModelCallFails(h, status) ==
  LET call == convCalls[h]
  IN /\ call.pc = "model"
     /\ convCalls' = [convCalls EXCEPT ![h] =
          [call EXCEPT !.pc = "done", !.response = Some(ErrorResponse(status))]]
     /\ convEvent' = [op |-> "none"]
     /\ UNCHANGED << conversationStore, convNow, sweepDue, convCount >>
     /\ UNCHANGED otherThanConv

\* the handler posts the response and ends, app.js:824-844 and 925-932
PostResponse(h) ==
  /\ convCalls[h].pc = "done"
  /\ convCalls' = [convCalls EXCEPT ![h] = NoCall]
  /\ convEvent' = [op |-> "none"]
  /\ UNCHANGED << conversationStore, convNow, sweepDue, convCount >>
  /\ UNCHANGED otherThanConv

\* the interval timer fires, index.js:175: not before it is due
Sweep ==
  /\ convNow >= sweepDue
  /\ conversationStore' = cleanupOldConversations(conversationStore, convNow)
  /\ sweepDue' = convNow + CleanupInterval
  /\ convEvent' = [op |-> "cleanupOldConversations"]
  /\ UNCHANGED << convNow, convCalls, convCount >>
  /\ UNCHANGED otherThanConv

\* time passes
Advance ==
  /\ convCount.advances < MaxAdvances
  /\ convNow' = convNow + AdvanceBy(convCount.advances + 1)
  /\ convCount' = [convCount EXCEPT !.advances = @ + 1]
  /\ convEvent' = [op |-> "none"]
  /\ UNCHANGED << conversationStore, sweepDue, convCalls >>
  /\ UNCHANGED otherThanConv

ConvNext ==
  \/ \E h \in Handlers : SlashCommand(h)
  \/ \E h \in Handlers, t \in BotThreads : ThreadReply(h, t)
  \/ \E h \in Handlers : AnalyzeWithoutThread(h)
  \/ \E h \in Handlers : ToolUseTurn(h)
  \/ \E h \in Handlers, hasText \in BOOLEAN : FinalResponse(h, hasText)
  \/ \E h \in Handlers : ModelCallFails(h, 429)
  \/ \E h \in Handlers : PostResponse(h)
  \/ Sweep
  \/ Advance

\* ------------------------------------------------------------------------
\* app.js: who may reach the analyst, and the GitHub webhook
\* ------------------------------------------------------------------------

T_C1 == << "C", "1" >>

T_C2 == << "C", "2" >>

T_C9 == << "C", "9" >>

T_C1_C2 == << "C", "1", ",", "C", "2" >>

T_C1_C2_Spaced == << "C", "1", ",", " ", "C", "2" >>

T_Question == << "c", "a", "s", "h", "?" >>

T_Spaces == << " ", " " >>

\* process.env.FPA_CHANNEL_ID: not set, empty, or a list of channel ids
FpaEnvs == { <<>>, T_C1, T_C1_C2, T_C1_C2_Spaced }

\* the channels events come from
Channels == { T_C1, T_C2, T_C9 }

\* text.split(sep)
RECURSIVE split(_, _)
split(text, sep) ==
  IF text = <<>> THEN << <<>> >>
  ELSE LET rest == split(Tail(text), sep)
       IN IF Head(text) = sep
          THEN << <<>> >> \o rest
          ELSE << << Head(text) >> \o rest[1] >> \o Tail(rest)

\* a channel list that holds every channel
FPA_CHANNEL_IDS_Open(env) == << T_C1, T_C2, T_C9 >>

\* FPA_CHANNEL_IDS, app.js:32-34, for the value env of FPA_CHANNEL_ID (an
\* unset and an empty variable are both falsy)
FPA_CHANNEL_IDS(env) ==
  IF env = <<>> THEN <<>>
  ELSE LET ids == split(env, ",")
       IN [i \in DOMAIN ids |-> trim(ids[i])]

\* array.includes(x)
arrayIncludes(array, x) == \E i \in DOMAIN array : array[i] = x

\* what a handler did: whether it called financialAnalyst.analyze, and with
\* which question; what it posted instead; for the webhook the response and
\* whether the payload went to handleGitHubWebhook
NoOutcome ==
  [analyze |-> FALSE, question |-> <<>>, posted |-> "", status |-> 0,
   handled |-> FALSE]

\* the /fpabot commands: command.channel_id and command.text
Commands == [channel : Channels, text : { <<>>, T_Spaces, T_Question }]

\* app.command('/fpabot'), app.js:755-821, up to the call of analyze
fpabotCommand(env, command) ==
  IF Len(FPA_CHANNEL_IDS(env)) = 0
  THEN [NoOutcome EXCEPT !.posted = "FPA Bot is not configured"]
  ELSE IF ~arrayIncludes(FPA_CHANNEL_IDS(env), command.channel)
  THEN [NoOutcome EXCEPT !.posted = "only available in authorized FPA channels"]
  ELSE IF trim(command.text) = <<>>
  THEN [NoOutcome EXCEPT !.posted = "Usage"]
  ELSE [NoOutcome EXCEPT !.analyze = TRUE, !.question = trim(command.text),
                         !.posted = "Analyzing"]

\* the messages app.message sees: message.thread_ts is set or not; the
\* message is of a bot by bot_id or by subtype, or of a user; the parent of
\* the thread is missing, has no "asked:" context block or has one; and
\* conversations.replies answers or throws
Messages ==
  [channel : Channels, inThread : BOOLEAN, bot : {"", "bot_id", "bot_message"},
   parent : {"none", "other", "asked"}, repliesOk : BOOLEAN,
   text : { <<>>, T_Question }]

\* app.message, app.js:874-922, up to the call of analyze; :934-943 when
\* conversations.replies throws
threadMessage(env, message) ==
  IF ~message.inThread THEN NoOutcome
  ELSE IF message.bot # "" THEN NoOutcome
  ELSE IF ~arrayIncludes(FPA_CHANNEL_IDS(env), message.channel) THEN NoOutcome
  ELSE IF ~message.repliesOk
  THEN [NoOutcome EXCEPT !.posted = "Sorry, I encountered an error"]
  ELSE IF message.parent # "asked" THEN NoOutcome
  ELSE IF trim(message.text) = <<>> THEN NoOutcome
  ELSE [NoOutcome EXCEPT !.analyze = TRUE, !.question = trim(message.text),
                         !.posted = "Analyzing"]

\* process.env.GITHUB_WEBHOOK_SECRET: not set, or a secret
Secrets == { "", "s1" }

\* the bodies of the requests: JSON or not
Bodies == { "{\"action\":\"opened\"}", "not json" }

T_Sha256 == << "s", "h", "a", "2", "5", "6", "=" >>

\* hmac.update(payload).digest('hex'), its 64 digits cut to 2: a digest for
\* each key and payload
hexDigest(secret, payload) ==
  IF secret = "s1"
  THEN CASE payload = "not json" -> << "a", "1" >>
         [] payload = "another body" -> << "e", "5" >>
         [] OTHER -> << "b", "2" >>
  ELSE CASE payload = "not json" -> << "c", "3" >>
         [] payload = "another body" -> << "f", "6" >>
         [] OTHER -> << "d", "4" >>

\* the x-hub-signature-256 headers: missing or empty, the signature of the
\* body under the secret or under another, of another body, a shorter text
\* and a longer one
Signatures(payload) ==
  { <<>>,
    T_Sha256 \o hexDigest("s1", payload),
    T_Sha256 \o hexDigest("other", payload),
    T_Sha256 \o hexDigest("s1", "another body"),
    T_Sha256,
    T_Sha256 \o hexDigest("s1", payload) \o << "0" >> }

\* crypto.timingSafeEqual(a, b): it throws when the lengths differ
timingSafeEqual(a, b) ==
  IF Len(a) # Len(b) THEN "throws"
  ELSE IF a = b THEN "true" ELSE "false"

\* verifyGitHubSignature, app.js:37-44
verifyGitHubSignature(secret, payload, signature) ==
  IF secret = "" THEN "true"
  ELSE IF signature = <<>> THEN "false"
  ELSE timingSafeEqual(T_Sha256 \o hexDigest(secret, payload), signature)

\* the requests to the HTTP server
Requests ==
  UNION { [method : {"GET", "POST"}, url : {"/github-webhook", "/"},
           body : {b}, signature : Signatures(b)] : b \in Bodies }

\* the HTTP server, app.js:326-363
httpRequest(secret, req) ==
  IF req.method = "GET"
  THEN [NoOutcome EXCEPT !.status = 200, !.posted = "Billing Requests app is running"]
  ELSE IF req.url # "/github-webhook"
  THEN [NoOutcome EXCEPT !.status = 404, !.posted = "Not found"]
  ELSE LET verified == verifyGitHubSignature(secret, req.body, req.signature)
       IN IF verified = "throws"
          THEN [NoOutcome EXCEPT !.status = 500, !.posted = "Internal error"]
          ELSE IF verified = "false"
          THEN [NoOutcome EXCEPT !.status = 401, !.posted = "Invalid signature"]
          ELSE IF req.body = "not json"
          THEN [NoOutcome EXCEPT !.status = 500, !.posted = "Internal error"]
          ELSE [NoOutcome EXCEPT !.status = 200, !.posted = "OK", !.handled = TRUE]

AppInit ==
  /\ appEnv \in [FPA_CHANNEL_ID : FpaEnvs, GITHUB_WEBHOOK_SECRET : Secrets]
  /\ appIn = [kind |-> "none"]
  /\ appOut = NoOutcome

CommandArrives(command) ==
  /\ appIn' = [kind |-> "command", command |-> command]
  /\ appOut' = fpabotCommand(appEnv.FPA_CHANNEL_ID, command)
  /\ UNCHANGED appEnv
  /\ UNCHANGED otherThanApp

MessageArrives(message) ==
  /\ appIn' = [kind |-> "message", message |-> message]
  /\ appOut' = threadMessage(appEnv.FPA_CHANNEL_ID, message)
  /\ UNCHANGED appEnv
  /\ UNCHANGED otherThanApp

RequestArrives(req) ==
  /\ appIn' = [kind |-> "request", req |-> req]
  /\ appOut' = httpRequest(appEnv.GITHUB_WEBHOOK_SECRET, req)
  /\ UNCHANGED appEnv
  /\ UNCHANGED otherThanApp

AppNext ==
  \/ \E command \in Commands : CommandArrives(command)
  \/ \E message \in Messages : MessageArrives(message)
  \/ \E req \in Requests : RequestArrives(req)

\* ------------------------------------------------------------------------
\* Specifications
\* ------------------------------------------------------------------------

\* no call of analyze is under way
LoopQuiet == loop = NoLoop /\ trace = NoTrace /\ toolThrows = {}

\* no call into the cache is under way, and nothing is cached
CacheQuiet == CacheInit /\ dbConfigured

\* nothing is being calculated
CalcQuiet ==
  /\ calcInput = [acc |-> Account("21001", "Some Account", "ASSET", "Sub", "ACTIVE"),
                  b |-> [debits |-> Num(0), credits |-> Num(0), transactions |-> 2]]
  /\ calcResult = None

\* no aggregation is under way
AggQuiet ==
  /\ aggOrder = <<>>
  /\ aggPos = 0
  /\ aggBalances = <<>>

\* findAccounts has not been called
FindQuiet ==
  /\ findCriteria = [search |-> <<>>, type |-> <<>>, subtype |-> <<>>, codes |-> <<>>]
  /\ findResult = None

\* accountBalance has not been called
WfQuiet ==
  /\ wfInput = [search |-> <<>>, type |-> <<>>, subtype |-> <<>>, codes |-> <<>>]
  /\ wfLedger = FindChart
  /\ wfPc = "idle"
  /\ wfMatched = <<>>
  /\ wfOut = None
  /\ wfEffects = NoEffects

\* tools.execute has not been called on its own
ExecQuiet == execName = "" /\ execResult = None /\ execContent = None

\* no event has arrived at app.js, which runs with one channel and no secret
AppQuiet ==
  /\ appEnv = [FPA_CHANNEL_ID |-> T_C1, GITHUB_WEBHOOK_SECRET |-> ""]
  /\ appIn = [kind |-> "none"]
  /\ appOut = NoOutcome

\* no handler is in analyze, and no conversation is stored
ConvQuiet ==
  /\ conversationStore = <<>>
  /\ convNow = 0
  /\ sweepDue = CleanupInterval
  /\ convCalls = [h \in Handlers |-> NoCall]
  /\ convCount = [slash |-> 0, reply |-> 0, advances |-> 0]
  /\ convEvent = [op |-> "none"]

\* the layered cache under concurrent calls
Init ==
  CacheInit /\ LoopQuiet /\ CalcQuiet /\ AggQuiet /\ FindQuiet /\ WfQuiet /\ ExecQuiet
    /\ ConvQuiet /\ AppQuiet

Next == CacheNext

Spec == Init /\ [][Next]_vars

\* one call of analyze
InitLoop ==
  LoopInit /\ CacheQuiet /\ CalcQuiet /\ AggQuiet /\ FindQuiet /\ WfQuiet /\ ExecQuiet
    /\ ConvQuiet /\ AppQuiet

NextLoop == LoopNext

SpecLoop == InitLoop /\ [][NextLoop]_vars

\* the Balance Calculator applied to any one account
InitCalc ==
  CalcInit /\ CacheQuiet /\ LoopQuiet /\ AggQuiet /\ FindQuiet /\ WfQuiet /\ ExecQuiet
    /\ ConvQuiet /\ AppQuiet

NextCalc == CalcNext

SpecCalc == InitCalc /\ [][NextCalc]_vars

\* one caller refreshing the cache over a long ledger
InitScan ==
  ScanInit /\ LoopQuiet /\ CalcQuiet /\ AggQuiet /\ FindQuiet /\ WfQuiet /\ ExecQuiet
    /\ ConvQuiet /\ AppQuiet

NextScan == ScanNext

SpecScan == InitScan /\ [][NextScan]_vars

\* the aggregation over any pages in any order
InitAgg ==
  AggInit /\ CacheQuiet /\ LoopQuiet /\ CalcQuiet /\ FindQuiet /\ WfQuiet /\ ExecQuiet
    /\ ConvQuiet /\ AppQuiet

NextAgg == AggNext

SpecAgg == InitAgg /\ [][NextAgg]_vars

\* findAccounts alone, for every criteria
InitFind ==
  FindInit /\ CacheQuiet /\ LoopQuiet /\ CalcQuiet /\ AggQuiet /\ WfQuiet /\ ExecQuiet
    /\ ConvQuiet /\ AppQuiet

NextFind == FindNext

SpecFind == InitFind /\ [][NextFind]_vars

\* one call of accountBalance, for every input and either chart
InitWf ==
  WfInit /\ CacheQuiet /\ LoopQuiet /\ CalcQuiet /\ AggQuiet /\ FindQuiet
    /\ ExecQuiet /\ ConvQuiet /\ AppQuiet

NextWf == WfNext

SpecWf == InitWf /\ [][NextWf]_vars

\* one call of tools.execute, for every name
InitExec ==
  /\ ExecInit
  /\ loop = NoLoop /\ trace = NoTrace
  /\ CacheQuiet /\ CalcQuiet /\ AggQuiet /\ FindQuiet /\ WfQuiet /\ ConvQuiet /\ AppQuiet

NextExec == ExecNext

SpecExec == InitExec /\ [][NextExec]_vars

\* the handlers of commands and thread replies over the conversation store
InitConv ==
  ConvInit /\ CacheQuiet /\ LoopQuiet /\ CalcQuiet /\ AggQuiet /\ FindQuiet
    /\ WfQuiet /\ ExecQuiet /\ AppQuiet

NextConv == ConvNext

SpecConv == InitConv /\ [][NextConv]_vars

\* the handlers of app.js, for every environment and every event
InitApp ==
  AppInit /\ CacheQuiet /\ LoopQuiet /\ CalcQuiet /\ AggQuiet /\ FindQuiet
    /\ WfQuiet /\ ExecQuiet /\ ConvQuiet

NextApp == AppNext

SpecApp == InitApp /\ [][NextApp]_vars


\* ------------------------------------------------------------------------
\* The layered cache: claims
\* ------------------------------------------------------------------------

\* the staleness bound of Tier 2, in ms
StalenessBound == 24 * 60 * 60 * 1000

\* the map a scan produces that reads the first page in version v1 of the
\* ledger and the second in version v2
WholeScan(v1, v2) ==
  FinalBalances(LedgerAccounts(v1),
    ProcessEntries(
      ProcessEntries(InitBalances(LedgerAccounts(v1)),
                     LedgerPage(v1, CursorChain[1]).journal_entries),
      LedgerPage(v2, CursorChain[2]).journal_entries))

\* the maps of all whole scans, as computed and as read back from the store
CompleteMaps ==
  LET whole == {WholeScan(v1, v2) : v1 \in LedgerVersions, v2 \in LedgerVersions}
  IN whole \cup {JsonRoundTrip(m) : m \in whole}

\* C1: a call of getAllAccountBalances without forceRefresh that begins while
\* Tier 1 is populated and younger than five minutes has returned at once, with
\* the very map Tier 1 held when it began (the map the call that populated
\* Tier 1 returns), served by Tier 1, having sent no request to the ledger and
\* none to the persistent store.
C1_Tier1Hit ==
  \A p \in Callers :
    obs[p].t1 # None =>
      /\ pc[p] = "done"
      /\ obs[p].path = "L1"
      /\ frame[p].ret = obs[p].t1
      /\ obs[p].ledgerReqs = 0
      /\ obs[p].dbReqs = 0

\* a call was served by Tier 1 when Tier 1 was one millisecond short of its TTL
C1_Witness ==
  \E p \in Callers :
    /\ obs[p].t1 # None
    /\ obs[p].path = "L1"
    /\ clock - memoryCacheTime = MEMORY_CACHE_TTL - 1

\* a row of the store no other row is more recent than
MostRecent(r) == r \in db /\ \A q \in db : q.created_at <= r.created_at

\* C2: when a call without forceRefresh has missed Tier 1 and its read of the
\* persistent store delivers the most recent snapshot, and that snapshot is no
\* older than the staleness bound, the call puts the snapshot's map into
\* Tier 1 and returns that map, having requested nothing from the ledger (no
\* journal-entry page, no account list).
C2_Tier2Hit ==
  [][\A p \in Callers :
       (/\ pc[p] = "db_read"
        /\ pc'[p] # "db_read"
        /\ dbConfigured
        /\ ~obs'[p].dbErr
        /\ \E r \in db : MostRecent(r) /\ clock - r.created_at <= StalenessBound)
       => (\E r \in db :
             /\ MostRecent(r)
             /\ memoryCache' = Some(r.data)
             /\ memoryCacheTime' = frame[p].now
             /\ frame'[p].ret = Some(r.data)
             /\ pc'[p] = "done"
             /\ obs'[p].pageReqs = 0
             /\ obs'[p].ledgerReqs = 0)]_vars

\* a call was served by Tier 2 after Tier 1 had expired
C2_Witness ==
  \E p \in Callers :
    /\ pc[p] = "done"
    /\ obs[p].path = "L2"
    /\ frame[p].ret = memoryCache
    /\ ticks > 0

ChartCodes == {a.code : a \in Range(LedgerAccounts(1))}

\* C4: the map a cold compute has returned holds an entry under the code of
\* every account getAllAccounts returned and under no other key, each entry
\* carrying its own code, whatever codes the caller asked for; the caller
\* itself receives the entries of the codes it asked for.
C4_EveryAccount ==
  \A p \in Callers :
    pc[p] = "done" /\ obs[p].path = "L3" =>
      LET m == frame[p].ret[1]
      IN /\ DOMAIN m = ChartCodes
         /\ \A c \in DOMAIN m : m[c].code = c
         /\ frame[p].entry = "calculateBalances" =>
              DOMAIN frame[p].out[1] = Range(frame[p].accountCodes) \cap ChartCodes

\* a cold compute started by a call for one code has returned the whole chart,
\* the inactive account without a debit or credit included
C4_Witness ==
  \E p \in Callers :
    /\ pc[p] = "done"
    /\ obs[p].path = "L3"
    /\ frame[p].accountCodes = <<"11001">>
    /\ DOMAIN frame[p].out[1] = {"11001"}
    /\ Cardinality(DOMAIN frame[p].ret[1]) = 3
    /\ frame[p].ret[1]["41001"].debits = Num(0)

\* C5 as claimed: of the calculateBalances calls that missed the cache, at most
\* one is scanning the ledger at any time.
C5_OneScanPerMiss ==
  Cardinality({p \in Callers :
                 /\ frame[p].entry = "calculateBalances"
                 /\ pc[p] \in {"fetch_accounts", "fetch_page"}}) <= 1

\* C6: whatever a reader finds in Tier 1 at any moment, before, during and
\* after cold computes, is no map at all or the map of a whole scan, with the
\* sums of all its pages.
C6_NeverPartial ==
  memoryCache = None \/ memoryCache[1] \in CompleteMaps

\* Tier 1 holds the map of an earlier scan while another call is in the middle
\* of its scan, one page read and one to go
C6_Witness ==
  /\ memoryCache # None
  /\ \E p \in Callers :
       /\ pc[p] = "fetch_page"
       /\ frame[p].pageCount = 1
       /\ frame[p].balances["11001"].debits = Num(100)
       /\ memoryCache[1]["11001"].credits = Num(40)

\* ------------------------------------------------------------------------
\* The tool-call loop: claims
\* ------------------------------------------------------------------------

\* how far a call of analyze is from its end: the iterations it may still
\* begin count most, then the attempts left of the model call, then the blocks
\* of the response not yet handled
Rank ==
  IF loop.pc = "idle" THEN 200
  ELSE IF loop.pc = "done" THEN 0
  ELSE (10 - loop.iteration) * 16 +
       (IF loop.pc = "model" THEN 15 - 2 * loop.attempt
        ELSE IF loop.pc = "sleep" THEN 14 - 2 * loop.attempt
        ELSE 1 + Len(loop.response.content) - loop.block)

\* C7: every step of a call of analyze brings it nearer its end, so the loop
\* terminates; the call makes at most 10 model calls (calls of
\* createMessageWithRetry), and when every model call was answered with
\* stop_reason tool_use it has made exactly 10 by the time it returns, and
\* what it returns is the 'took too long' error response.
C7_LoopTerminates ==
  [][/\ Rank' < Rank
     /\ trace'.modelCalls <= 10
     /\ trace'.modelCalls = loop'.iteration
     /\ (loop'.pc = "done" /\ trace'.finals = 0 =>
           /\ trace'.modelCalls = 10
           /\ loop'.outcome = Some([text |-> "The analysis took too long.",
                                    is_error |-> TRUE]))
     /\ (loop'.pc = "done" /\ trace'.finals # 0 =>
           loop'.outcome # Some([text |-> "The analysis took too long.",
                                 is_error |-> TRUE]))]_vars

\* the model has asked for a tool ten times, and analyze has given up
C7_Witness ==
  /\ loop.pc = "done"
  /\ trace.finals = 0
  /\ trace.modelCalls = 10
  /\ Len(loop.messages) = 21
  /\ loop.outcome = Some(TookTooLong)

IsToolUse(block) == block.type = "tool_use"

\* the tool_use blocks of a response, in block order
ToolUseBlocks(content) == SelectSeq(content, IsToolUse)

\* C8: while the tools of a tool_use response run, one tool is awaited at a
\* time, the blocks are handed to tools.execute in block order, and the
\* conversation does not change; the next model call (or the end at the
\* ceiling) comes only when every tool_use block of the response has been
\* executed exactly once, and in the same step the conversation grows by
\* exactly two messages: the assistant message with the response's content and
\* one user message holding, in block order, one tool_result per tool_use
\* block with that block's id and the serialised result of its execution.
C8_ToolResults ==
  [][/\ (loop'.pc = "tool" /\ loop' # loop =>
           LET tu == ToolUseBlocks(loop'.response.content)
               n == Len(trace'.executed)
           IN /\ n = (IF loop.pc = "tool" THEN Len(trace.executed) + 1 ELSE 1)
              /\ n <= Len(tu)
              /\ trace'.executed = SubSeq(tu, 1, n)
              /\ loop'.response.content[loop'.block] = tu[n]
              /\ Len(loop'.toolResults) = n - 1
              /\ loop'.messages = loop.messages
              /\ trace'.modelCalls = trace.modelCalls)
     /\ (/\ trace.modelCalls >= 1
         /\ \/ trace'.modelCalls = trace.modelCalls + 1
            \/ loop.pc # "done" /\ loop'.pc = "done" /\ trace'.finals = 0
         => LET tu == ToolUseBlocks(loop.response.content)
                m == Len(loop.messages)
            IN /\ loop.pc = "tool"
               /\ loop.response.stop_reason = "tool_use"
               /\ trace'.executed = tu
               /\ Len(loop'.messages) = m + 2
               /\ SubSeq(loop'.messages, 1, m) = loop.messages
               /\ loop'.messages[m + 1] =
                    [role |-> "assistant", content |-> loop.response.content]
               /\ loop'.messages[m + 2].role = "user"
               /\ Len(loop'.messages[m + 2].content) = Len(tu)
               /\ \A k \in 1..Len(tu) :
                    loop'.messages[m + 2].content[k] =
                      [type |-> "tool_result", tool_use_id |-> tu[k].id,
                       content |-> << "json", Execute(tu[k].name, toolThrows) >>])]_vars

\* the second model call is under way after a response with two tool_use
\* blocks around a text block: the conversation holds the question, the
\* response and the two results
C8_Witness ==
  /\ loop.pc = "model"
  /\ loop.iteration = 2
  /\ Len(loop.messages) = 3
  /\ loop.messages[2].role = "assistant"
  /\ Len(loop.messages[2].content) = 3
  /\ Len(loop.messages[3].content) = 2
  /\ loop.messages[3].content[1].tool_use_id = "toolu_b"
  /\ loop.messages[3].content[2].tool_use_id = "toolu_c"

\* the k-th failure of a model call is one createMessageWithRetry retries
Retried(k) == trace.failures[k].status \in {429, 529} /\ k < 3

\* C9: a model call makes at most 3 attempts; a failure with status 429 or
\* 529 of the first or second attempt is followed by a wait (1000 then 2000 ms
\* for 429, 2000 then 4000 ms for 529) and another attempt; any other failure,
\* and every failure of the third attempt, is thrown to the caller at once,
\* with no wait and no further attempt, and the error thrown is the error of
\* that attempt.
C9_Retry ==
  LET f == trace.failures
      n == Len(f)
  IN /\ trace.attempts <= 3
     /\ n <= trace.attempts
     /\ trace.attempts <= n + 1
     /\ Len(trace.waits) <= 2
     /\ \A k \in 1..n :
          /\ f[k].attempt = k
          /\ Retried(k) =>
               /\ k <= Len(trace.waits)
               /\ trace.waits[k] =
                    (IF f[k].status = 429 THEN (IF k = 1 THEN 1000 ELSE 2000)
                     ELSE (IF k = 1 THEN 2000 ELSE 4000))
               /\ (k = n => trace.thrown = None)
          /\ ~Retried(k) =>
               /\ k = n
               /\ Len(trace.waits) = n - 1
               /\ trace.attempts = n
               /\ trace.thrown = Some(f[k])
               /\ loop.pc = "done"
     /\ (trace.thrown # None => n >= 1 /\ trace.thrown = Some(f[n]))

\* rate limited, then overloaded twice: the third attempt's error is thrown
\* after waits of one and four seconds
C9_Witness ==
  /\ trace.thrown = Some([status |-> 529, attempt |-> 3])
  /\ trace.waits = << 1000, 4000 >>
  /\ trace.failures[1].status = 429
  /\ loop.outcome = Some(ErrorResponse(529))

\* ------------------------------------------------------------------------
\* The Balance Calculator: claims
\* ------------------------------------------------------------------------

\* x - y on the numbers of the map: NaN when either is NaN
Minus(x, y) == IF x.k = "num" /\ y.k = "num" THEN Num(x.v - y.v) ELSE NaN

\* C10: the entry computed for an account carries the account's sums, and its
\* balance is credits minus debits when the type, whatever its letter case, is
\* LIABILITY, EQUITY, REVENUE or INCOME, and debits minus credits for every
\* other type, a missing or unrecognised one included.
C10_SignConvention ==
  calcResult # None =>
    LET r == calcResult[1]
        creditNormal ==
          calcInput.acc.type \in
            {"LIABILITY", "Liability", "liability", "EQUITY", "equity",
             "REVENUE", "Revenue", "rEvEnUe", "INCOME", "Income", "income"}
    IN /\ r.debits = calcInput.b.debits
       /\ r.credits = calcInput.b.credits
       /\ r.balance = (IF creditNormal THEN Minus(r.credits, r.debits)
                       ELSE Minus(r.debits, r.credits))

\* a liability spelt in mixed case with 40 of debits and 100 of credits has a
\* balance of 60
C10_Witness ==
  /\ calcResult # None
  /\ calcInput.acc.type = "Liability"
  /\ calcInput.b.debits = Num(40)
  /\ calcInput.b.credits = Num(100)
  /\ calcResult[1].balance = Num(60)

\* ------------------------------------------------------------------------
\* The ledger scan and the aggregation: claims
\* ------------------------------------------------------------------------

\* the items of a list of journal entries, in order
RECURSIVE ItemsOf(_)
ItemsOf(entries) ==
  IF entries = <<>> THEN <<>> ELSE Head(entries).items \o ItemsOf(Tail(entries))

\* the sum of the amounts of the items that carry the code and the side (an
\* absent amount counts 0, an amount that is no number makes the sum NaN)
RECURSIVE SumAmounts(_, _, _)
SumAmounts(items, code, side) ==
  IF items = <<>> THEN Num(0)
  ELSE LET i == items[Len(items)]
           before == SumAmounts(SubSeq(items, 1, Len(items) - 1), code, side)
       IN IF i.account_code = code /\ i.side = side
          THEN (IF i.amount.k = "junk" \/ before.k = "NaN" THEN NaN
                ELSE Num(before.v + (IF i.amount.k = "num" THEN i.amount.v ELSE 0)))
          ELSE before

\* the items of both pages of the ledger, the second page read in version v
ScannedItems(v) ==
  ItemsOf(LedgerPage(1, CursorChain[1]).journal_entries)
    \o ItemsOf(LedgerPage(v, CursorChain[2]).journal_entries)

\* C11: in the map a cold compute over the two pages of the ledger has
\* returned, the debits and the credits of every account are the sums of the
\* amounts of the DEBIT and of the CREDIT items that carry its code on both
\* pages (account 11001: debits 100 from page 1, credits 40 from page 2,
\* balance 60), and the item for code 99999, which is no account, has made no
\* entry and changed none.
C11_SumsOverAllPages ==
  \A p \in Callers :
    pc[p] = "done" /\ obs[p].path = "L3" =>
      LET m == frame[p].ret[1]
      IN /\ obs[p].pageReqs = 2
         /\ m["11001"].debits = Num(100)
         /\ m["11001"].credits = Num(40)
         /\ m["11001"].balance = Num(60)
         /\ "99999" \notin DOMAIN m
         /\ \E v \in LedgerVersions :
              \A c \in DOMAIN m :
                /\ m[c].debits = SumAmounts(ScannedItems(v), c, "DEBIT")
                /\ m[c].credits = SumAmounts(ScannedItems(v), c, "CREDIT")

\* a cold compute has returned sums that come from both pages, the second
\* page read after the ledger changed
C11_Witness ==
  \E p \in Callers :
    /\ pc[p] = "done"
    /\ obs[p].path = "L3"
    /\ frame[p].ret[1]["11001"].balance = Num(60)
    /\ frame[p].ret[1]["21001"].credits = Num(2)
    /\ frame[p].ret[1]["41001"].credits = Num(0)

\* the running sums after the pages of a sequence have been processed in order
RECURSIVE TotalsOf(_)
TotalsOf(order) ==
  IF order = <<>> THEN InitBalances(LedgerAccounts(1))
  ELSE ProcessEntries(TotalsOf(SubSeq(order, 1, Len(order) - 1)),
                      order[Len(order)].journal_entries)

\* C12 as claimed: when all pages of a non-empty set have been processed, the
\* totals of every account (debits, credits, transactions) are the totals
\* that every other order of the same pages produces.
C12_OrderIndependent ==
  aggOrder # <<>> /\ aggPos = Len(aggOrder) =>
    \A o \in Orders(Range(aggOrder)) : TotalsOf(o) = aggBalances

\* C13: a call of calculateBalances that has returned holds exactly the
\* entries of the full map (the map getAllAccountBalances gave it) whose code
\* is among the codes asked for, each equal to the entry of the full map: a
\* code the full map lacks is left out and no other code appears; asked for no
\* codes, it has returned the empty map without calling
\* getAllAccountBalances, so without a request to a cache tier or the ledger.
C13_Projection ==
  \A p \in Callers :
    pc[p] = "done" /\ frame[p].entry = "calculateBalances" =>
      IF frame[p].accountCodes = <<>>
      THEN /\ frame[p].out = << <<>> >>
           /\ frame[p].ret = <<>>
           /\ obs[p].path = "empty"
           /\ obs[p].ledgerReqs = 0
           /\ obs[p].dbReqs = 0
      ELSE LET full == frame[p].ret[1]
               got == frame[p].out[1]
               asked == {frame[p].accountCodes[i] : i \in DOMAIN frame[p].accountCodes}
           IN /\ DOMAIN got = {c \in asked : c \in DOMAIN full}
              /\ \A c \in DOMAIN got : got[c] = full[c]

\* asked for an account and for a code that is none, calculateBalances has
\* returned the entry of the account alone, out of a full map of three
C13_Witness ==
  \E p \in Callers :
    /\ pc[p] = "done"
    /\ frame[p].accountCodes = << "21001", "99999" >>
    /\ DOMAIN frame[p].out[1] = {"21001"}
    /\ Cardinality(DOMAIN frame[p].ret[1]) = 3
    /\ \E q \in Callers : pc[q] = "done" /\ obs[q].path = "empty"

\* the balance maps the two tiers hold
StoredMaps ==
  (IF memoryCache = None THEN {} ELSE {memoryCache[1]}) \cup {r.data : r \in db}

\* C14 as claimed: the balance of every entry of every map held by Tier 1 or
\* by a Tier 2 snapshot is the sign convention applied to the type, the debits
\* and the credits of that entry.
C14_BalanceFromSums ==
  \A m \in StoredMaps :
    \A c \in DOMAIN m : m[c].balance = SignedBalance(m[c].type, m[c])

\* C15: the scan sends its first request without a cursor, and so fetches at
\* least one page; it has one request in flight at a time, the k-th asking for
\* page k with the cursor the response before it returned; a response without
\* next_cursor ends the scan, and so does the 500th response whatever it
\* carries, so no scan sends more than 500 requests and each response brings
\* the scan a step nearer its end; the sums then hold what the pages fetched
\* carried.
C15_PagedScan ==
  [][\A p \in Callers :
       /\ obs'[p].pageReqs <= 500
       /\ (pc[p] # "fetch_page" /\ pc'[p] = "fetch_page" =>
             /\ obs'[p].pageReqs = 1
             /\ frame'[p].cursor = ""
             /\ frame'[p].pageCount = 0)
       /\ (pc[p] = "fetch_page" /\ pc'[p] # "threw" /\ frame'[p] # frame[p] =>
             LET k == obs[p].pageReqs
                 n == LongPages(ledger)
                 next == IF k < n THEN "c" \o ToString(k + 1) ELSE ""
             IN /\ frame[p].pageCount = k - 1
                /\ frame[p].cursor = (IF k = 1 THEN "" ELSE "c" \o ToString(k))
                /\ IF next # "" /\ k < 500
                   THEN /\ pc'[p] = "fetch_page"
                        /\ obs'[p].pageReqs = k + 1
                        /\ frame'[p].cursor = next
                        /\ frame'[p].balances["11001"].debits = Num(k)
                   ELSE /\ pc'[p] \in {"save_delete", "done"}
                        /\ obs'[p].pageReqs = k
                        /\ memoryCache'[1]["11001"].debits = Num(k))]_vars

\* a scan of a ledger of 499 pages has ended after 499 requests
C15_Witness ==
  \E p \in Callers :
    /\ pc[p] = "done"
    /\ obs[p].path = "L3"
    /\ ledger = LongLedger(499)
    /\ obs[p].pageReqs = 499
    /\ frame[p].ret[1]["11001"].debits = Num(499)

\* what a scan of a long ledger of n pages returns when it has read them all
ScanResult(n) ==
  [c \in ChartCodes |->
     LET acc == AccountOf(LedgerAccounts(1), c)
     IN [code |-> c, name |-> OrUnknown(acc.name), type |-> OrUnknown(acc.type),
         subtype |-> OrUnknown(acc.subtype),
         debits |-> Num(IF c = "11001" THEN n ELSE 0), credits |-> Num(0),
         balance |-> Num(IF c = "11001" THEN n ELSE 0),
         transactions |-> IF c = "11001" THEN n ELSE 0]]

\* C17 as claimed: a scan that stopped at the ceiling of 500 pages while the
\* ledger had more returns normally, and what it returns carries a caveat: it
\* is not the very value that a scan returns which has read its ledger to the
\* end.
C17_PartialWithCaveat ==
  \A p \in Callers :
    LongPages(ledger) > 500 /\ obs[p].path = "L3" /\ pc[p] = "done" =>
      /\ obs[p].pageReqs = 500
      /\ frame[p].ret[1] # ScanResult(500)

\* C16: when the request for the accounts or for a page of journal entries
\* fails during a cold compute, the call ends there: it sends no further
\* request, it has returned no map and inserted no snapshot, the step leaves
\* Tier 1 and Tier 2 as they were, and accountBalance, when it is the caller,
\* returns {error, is_error: true}
C16_FailedFetchAborts ==
  [][\A p \in Callers :
       pc[p] \in {"fetch_accounts", "fetch_page"} /\ pc'[p] = "threw" =>
         /\ memoryCache' = memoryCache
         /\ memoryCacheTime' = memoryCacheTime
         /\ db' = db
         /\ obs'[p].ledgerReqs = obs[p].ledgerReqs
         /\ obs'[p].inserted = 0
         /\ frame'[p].ret = None
         /\ frame[p].entry = "calculateBalances" =>
              /\ frame'[p].report = Some(WorkflowFailed)
              /\ frame'[p].report[1].is_error]_vars

\* a page of journal entries failed after an earlier page had arrived, while
\* both tiers were populated
C16_Witness ==
  \E p \in Callers :
    /\ pc[p] = "threw"
    /\ obs[p].pageReqs = 2
    /\ frame[p].report = Some(WorkflowFailed)
    /\ memoryCache # None
    /\ db # {}

\* the lowercased name of account acc contains pattern pat
NameHas(acc, pat) == includes(toLowerCase(acc.name), pat)

\* the accounts findAccounts returned
Found == Range(findResult[1])

\* the criteria are a search for "cash", in any case and with spaces around
\* it, and nothing else
SearchesCash ==
  /\ trim(toLowerCase(findCriteria.search)) = T_Cash_lc
  /\ findCriteria.type = <<>>
  /\ findCriteria.subtype = <<>>
  /\ findCriteria.codes = <<>>

\* C18: a search for "cash" returns no account whose name contains
\* "receivable", "clearing" or "in transit"
C18_CashExclusions ==
  findResult # None /\ SearchesCash =>
    \A acc \in Found :
      /\ ~NameHas(acc, T_Receivable_lc)
      /\ ~NameHas(acc, T_Clearing_lc)
      /\ ~NameHas(acc, T_InTransit_lc)

\* C19: whatever is searched for, no account is returned whose name contains
\* the search term behind "non-" or "non "
C19_NegationGuard ==
  findResult # None /\ findCriteria.search # <<>> =>
    \A acc \in Found :
      /\ ~NameHas(acc, T_NonHyphen \o toLowerCase(findCriteria.search))
      /\ ~NameHas(acc, T_NonSpace \o toLowerCase(findCriteria.search))

\* C20: whatever the criteria, every account findAccounts returns is ACTIVE
C20_OnlyActive ==
  findResult # None => \A acc \in Found : acc.status = "ACTIVE"

\* an account that is not active passes every other check of the filter, on
\* the path of the code list, and is not returned, while others are
C20_Witness ==
  /\ findResult # None
  /\ UsesCodeList(findCriteria)
  /\ Found # {}
  /\ \E i \in DOMAIN FindChart :
       /\ FindChart[i].status # "ACTIVE"
       /\ FindChart[i].code \in Range(Resolved(findCriteria).codes)
       /\ FindChart[i] \notin Found

\* account acc passes the codes, type and subtype filters that criteria supply
SatisfiesFilters(acc, criteria) ==
  /\ criteria.codes # <<>> => acc.code \in Range(criteria.codes)
  /\ criteria.type # <<>> => UpperCase(acc.type) = UpperCase(criteria.type)
  /\ criteria.subtype # <<>> =>
       toLowerCase(acc.subtype) = toLowerCase(criteria.subtype)

\* the name of account acc carries one of the exclusion patterns
Excluded(acc) ==
  \E i \in DOMAIN CashExclusions : NameHas(acc, CashExclusions[i])

\* the search term is taken literally: it is no key of the code lists or of
\* the synonym map, or subtype or codes come with it
LiteralSearch(criteria) ==
  /\ criteria.search # <<>>
  /\ \/ criteria.subtype # <<>>
     \/ criteria.codes # <<>>
     \/ trim(toLowerCase(criteria.search)) \notin
          DOMAIN ACCOUNT_CODE_LISTS \cup DOMAIN SEARCH_TO_SUBTYPE_MAP

\* the name or the code of account acc contains the term, and the name does
\* not negate it
SatisfiesSearch(acc, term) ==
  /\ NameHas(acc, toLowerCase(term)) \/ includes(acc.code, term)
  /\ ~NameHas(acc, T_NonHyphen \o toLowerCase(term))
  /\ ~NameHas(acc, T_NonSpace \o toLowerCase(term))

\* C21: every account findAccounts returns passes each of the codes, type and
\* subtype filters that were supplied (type and subtype compared without
\* regard to case); and when no search term is supplied, or the term is taken
\* literally, every active account of the chart that passes all the supplied
\* filters and whose name carries no exclusion pattern is returned
C21_FiltersAnded ==
  findResult # None =>
    /\ \A acc \in Found : SatisfiesFilters(acc, findCriteria)
    /\ \A acc \in Found :
         LiteralSearch(findCriteria) => SatisfiesSearch(acc, findCriteria.search)
    /\ findCriteria.search = <<>> \/ LiteralSearch(findCriteria) =>
         \A acc \in Range(FindChart) :
           /\ acc.status = "ACTIVE"
           /\ SatisfiesFilters(acc, findCriteria)
           /\ findCriteria.search # <<>> => SatisfiesSearch(acc, findCriteria.search)
           /\ ~Excluded(acc)
           => acc \in Found

\* codes, type and subtype are supplied together, type and subtype in a case
\* the chart does not use; an account passes all three and is returned, and
\* another passes the codes and the type but not the subtype and is not
C21_Witness ==
  /\ findResult # None
  /\ findCriteria.search = <<>>
  /\ findCriteria.codes # <<>>
  /\ findCriteria.type = T_Asset_lc
  /\ findCriteria.subtype = T_Bank_lc
  /\ Found # {}
  /\ \E acc \in Range(FindChart) \ Found :
       /\ acc.status = "ACTIVE"
       /\ acc.code \in Range(findCriteria.codes)
       /\ UpperCase(acc.type) = UpperCase(findCriteria.type)

\* C22: when accountBalance is given a filter that no account matches, it
\* returns the no-match result, an {error, is_error: true} that carries a
\* hint, and has not called calculateBalances
C22_NoMatch ==
  /\ wfPc = "done"
  /\ ~NoFilter(wfInput)
  /\ ~wfEffects.threw
  /\ findAccounts(wfLedger, wfInput) = <<>>
  => /\ wfOut = Some(NoMatchResult(wfInput))
     /\ wfOut[1].is_error
     /\ "hint" \in DOMAIN wfOut[1]
     /\ wfEffects.calcCalls = 0

\* accountBalance({type: "LIABILITY"}) has returned on a ledger without
\* liability accounts
C22_Witness ==
  /\ wfPc = "done"
  /\ wfInput = [search |-> <<>>, type |-> T_Liability_UC, subtype |-> <<>>,
                codes |-> <<>>]
  /\ \A i \in DOMAIN wfLedger : NotLiability(wfLedger[i])
  /\ wfOut = Some(NoMatchResult(wfInput))

\* ------------------------------------------------------------------------
\* db/cache.js: setBalanceCache under concurrent cold computes
\* ------------------------------------------------------------------------

\* how many snapshots earlier cold computes have left in the store
PriorCounts == 0..5

\* the rows that n cold computes, one after the other, have left: the n-th
\* was written at time n and found at most 4 rows after its DELETE
PriorRows(n) ==
  {[id |-> i, data |-> JsonRoundTrip(WholeScan(1, 1)), created_at |-> i,
    account_count |-> Cardinality(DOMAIN WholeScan(1, 1))] :
     i \in {j \in 1..n : j > n - 5}}

\* the process has run n cold computes to their end and Tier 1 has expired
\* since, or the process is new and the store is not
StoreInit ==
  /\ \E n \in PriorCounts :
       /\ db = PriorRows(n)
       /\ nextId = n + 1
  /\ clock = 6 + MEMORY_CACHE_TTL
  /\ ticks = 0
  /\ ledger = 1
  /\ dbConfigured = TRUE
  /\ accountsCache = None
  /\ accountsCacheTime = 0
  /\ memoryCache = None
  /\ memoryCacheTime = 0
  /\ pc = [p \in Callers |-> "idle"]
  /\ frame = [p \in Callers |-> NoFrame]
  /\ obs = [p \in Callers |-> NoObs]
  /\ callsMade = 0

\* cold computes of both callers, each ending in setBalanceCache
StoreNext ==
  \E p \in Callers :
    \/ Call(p, "refreshBalanceCache", TRUE, <<>>)
    \/ \E ok \in BOOLEAN : FetchAccounts(p, ok)
    \/ \E ok \in BOOLEAN : FetchPage(p, ok)
    \/ \E ok \in BOOLEAN : SaveDelete(p, ok)
    \/ \E ok \in BOOLEAN : SaveInsert(p, ok)

InitStore ==
  StoreInit /\ LoopQuiet /\ CalcQuiet /\ AggQuiet /\ FindQuiet /\ WfQuiet
    /\ ExecQuiet /\ ConvQuiet /\ AppQuiet

NextStore == StoreNext

SpecStore == InitStore /\ [][NextStore]_vars

\* C23: the store holds at most 5 snapshots, and they are the ones written
\* last: no snapshot written after one that is held is missing
C23_BoundedHistory ==
  /\ Cardinality(db) <= 5
  /\ \A r \in db : \A i \in r.id..(nextId - 1) : \E q \in db : q.id = i

\* C24: no failure of the persistent store makes getAllAccountBalances fail:
\* a call throws only out of a request to the ledger. When the store is not
\* configured or the read from it fails, the call goes on to the cold
\* compute; and a cold compute that ends while the store is not configured,
\* or whose write to it failed, returns the map of a whole scan, and Tier 1
\* holds a map (the returned one, when the call ends without a write).
C24_StoreUnavailable ==
  [][\A p \in Callers :
       /\ pc'[p] = "threw" => pc[p] \in {"fetch_accounts", "fetch_page", "threw"}
       /\ pc[p] = "db_read" /\ pc'[p] # "db_read"
            /\ (~dbConfigured \/ obs'[p].dbErr) =>
              /\ pc'[p] \in {"fetch_accounts", "fetch_page"}
              /\ obs'[p].path = "L3"
              /\ obs'[p].ledgerReqs = 1
              /\ UNCHANGED << memoryCache, memoryCacheTime >>
       /\ pc[p] \in {"fetch_page", "save_delete", "save_insert"}
            /\ pc'[p] = "done" /\ (~dbConfigured \/ obs'[p].dbErr) =>
              /\ frame'[p].ret # None
              /\ frame'[p].ret[1] \in CompleteMaps
              /\ memoryCache' # None
              /\ pc[p] = "fetch_page" => memoryCache' = frame'[p].ret]_vars

\* without a configured store, a call that found Tier 1 expired has run the
\* cold compute a second time; and with one, a call whose write failed has
\* returned
C24_Witness ==
  \/ /\ ~dbConfigured
     /\ callsMade = 2
     /\ ticks = 1
     /\ \E p \in Callers :
          /\ pc[p] = "done"
          /\ frame[p].entry = "calculateBalances"
          /\ obs[p].path = "L3"
          /\ memoryCache = frame[p].ret
  \/ /\ dbConfigured
     /\ \E p \in Callers :
          /\ pc[p] = "done"
          /\ obs[p].path = "L3"
          /\ obs[p].dbErr
          /\ obs[p].inserted = 0
          /\ frame[p].ret # None

\* the name is no key of toolImplementations, or the tool of that name throws
\* or returns no object
FailingCall == execName \notin ToolNames \/ execName \in toolThrows

\* C25: for an unknown tool name, and for a tool that throws or returns no
\* object, tools.execute resolves to an object of the shape
\* {error, is_error: true}, and the tool_result is made of it
C25_UniformErrors ==
  execResult # None /\ FailingCall =>
    /\ {"error", "is_error"} \subseteq DOMAIN execResult[1]
    /\ execResult[1].is_error
    /\ execContent # None => execContent[1] = Stringify(execResult[1])

\* the message analyze is to answer an error of a status with
MessageFor(status) ==
  CASE status = 401 -> "Authentication error with AI service."
    [] status = 429 -> "The AI service is currently busy."
    [] status = 529 -> "The AI service is temporarily overloaded."
    [] OTHER -> "I encountered an error while analyzing your question."

\* C26: when createMessageWithRetry has thrown, analyze has ended with an
\* error response whose message is that of the class of the error's status:
\* authentication for 401, busy for 429, overloaded for 529, and the generic
\* message for every other error; the four messages differ
C26_ErrorClasses ==
  /\ trace.thrown # None =>
       /\ loop.pc = "done"
       /\ loop.outcome = Some([text |-> MessageFor(trace.thrown[1].status),
                               is_error |-> TRUE])
  /\ \A s1, s2 \in {401, 429, 529, 0} :
       s1 # s2 => ErrorResponse(s1) # ErrorResponse(s2)

\* a rate-limit error has escaped the wrapper after its last attempt, and
\* analyze has answered that the service is busy
C26_Witness ==
  /\ trace.thrown # None
  /\ trace.thrown[1].status = 429
  /\ trace.attempts = maxRetries
  /\ loop.outcome = Some(formatError("The AI service is currently busy."))

\* the texts of the text blocks of a response, in their order
TextsOf(r) ==
  LET blocks == SelectSeq(r.content, IsText)
  IN [i \in DOMAIN blocks |-> blocks[i].text]

\* C27: in the step in which a response arrives whose stop_reason is not
\* tool_use, analyze ends: no further model call is made, no tool is
\* executed, nothing is added to the messages, and the outcome is the
\* response of the texts of its text blocks, joined in their order, or, when
\* the response holds no text, the 'unable to generate a response' error
C27_FinalText ==
  [][loop.pc = "model" /\ loop'.response # None
       /\ loop'.response.stop_reason # "tool_use" =>
         LET texts == TextsOf(loop'.response)
         IN /\ loop'.pc = "done"
            /\ trace'.modelCalls = trace.modelCalls
            /\ trace'.executed = trace.executed
            /\ loop'.messages = loop.messages
            /\ loop'.outcome =
                 IF \A i \in DOMAIN texts : texts[i] = ""
                 THEN Some([text |-> "I was unable to generate a response.",
                            is_error |-> TRUE])
                 ELSE IF Len(texts) = 1
                 THEN Some([text |-> texts[1], is_error |-> FALSE])
                 ELSE Some([text |-> texts[1] \o "\n" \o texts[2],
                            is_error |-> FALSE])]_vars

\* after a turn with tools, a response of two text blocks has ended the loop
\* with both texts
C27_Witness ==
  /\ loop.pc = "done"
  /\ trace.modelCalls = 2
  /\ loop.response # None
  /\ loop.response.stop_reason = "max_tokens"
  /\ loop.outcome = Some(formatResponse("Revenue:\nExpenses:"))

\* ------------------------------------------------------------------------
\* The conversation store and the handlers: claims
\* ------------------------------------------------------------------------

\* C28: no two handlers are suspended in a model call for the same thread
\* identifier at the same time
C28_OneModelCallPerThread ==
  \A h1, h2 \in Handlers :
    /\ h1 # h2
    /\ convCalls[h1].pc = "model"
    /\ convCalls[h2].pc = "model"
    => convCalls[h1].threadTs # convCalls[h2].threadTs

\* C29: every stored history holds at most 20 messages, and the history a
\* save for a thread has just stored is the tail of the saved sequence: its last 20
\* messages in their order, or all of them when they are fewer
C29_HistoryBound ==
  /\ \A t \in DOMAIN conversationStore :
       Len(conversationStore[t].messages) <= 20
  /\ convEvent.op = "saveConversation" /\ convEvent.threadTs # NoThread =>
       /\ convEvent.threadTs \in DOMAIN conversationStore
       /\ LET saved == convEvent.messages
              kept == conversationStore[convEvent.threadTs].messages
          IN /\ Len(kept) = IF Len(saved) < 20 THEN Len(saved) ELSE 20
             /\ \A i \in 1..Len(kept) : kept[i] = saved[Len(saved) - Len(kept) + i]

\* an eleventh answer was saved in a thread of ten: 22 messages were handed
\* over and the first question and its answer are gone
C29_Witness ==
  /\ convEvent.op = "saveConversation"
  /\ Len(convEvent.messages) = 22
  /\ convEvent.threadTs \in DOMAIN conversationStore
  /\ Len(conversationStore[convEvent.threadTs].messages) = 20
  /\ conversationStore[convEvent.threadTs].messages[1] = UserMessage(2)
  /\ conversationStore[convEvent.threadTs].messages[20] = AssistantMessage(11)

\* C30: a sweep leaves no conversation that has been inactive for more than
\* the TTL and keeps, unchanged, every conversation that was active within
\* it; getConversation changes nothing in the store and returns the stored
\* messages of the thread however long it has been inactive
C30_SweepOnly ==
  [][/\ convEvent'.op = "cleanupOldConversations" =>
          /\ \A t \in DOMAIN conversationStore' :
               convNow' - conversationStore'[t].lastActivity <= 3600000
          /\ \A t \in DOMAIN conversationStore :
               convNow - conversationStore[t].lastActivity <= 3600000 =>
                 /\ t \in DOMAIN conversationStore'
                 /\ conversationStore'[t] = conversationStore[t]
     /\ convEvent'.op = "getConversation" =>
          /\ conversationStore' = conversationStore
          /\ convEvent'.threadTs \in DOMAIN conversationStore =>
               convEvent'.returned =
                 conversationStore[convEvent'.threadTs].messages
     /\ convEvent'.op \notin {"cleanupOldConversations", "saveConversation"} =>
          conversationStore' = conversationStore]_vars

\* a sweep one millisecond after the TTL of the prior thread has removed it,
\* after a reply in it had read its history, and has kept the thread that
\* was saved one millisecond later
C30_Witness ==
  /\ convEvent.op = "cleanupOldConversations"
  /\ convNow = CONVERSATION_TTL_MS + 1
  /\ PriorThread \notin DOMAIN conversationStore
  /\ \E h \in Handlers :
       /\ convCalls[h].threadTs = PriorThread
       /\ Len(convCalls[h].existingMessages) = 20
  /\ SlashThread(1) \in DOMAIN conversationStore
  /\ convNow - conversationStore[SlashThread(1)].lastActivity = CONVERSATION_TTL_MS

\* ------------------------------------------------------------------------
\* Tier 2 staleness: claims
\* ------------------------------------------------------------------------

\* one hour, in ms
HourMs == 60 * 60 * 1000

\* how old the newest snapshot is when the process starts: around 24 hours
\* and around the 24.5 hours at which the rounded age reaches 25
SnapshotAges ==
  { 5 * 60 * 1000, 24 * HourMs - 1, 24 * HourMs, 24 * HourMs + 1,
    24 * HourMs + 10 * 60 * 1000, 88170000 - 1, 88170000, 25 * HourMs,
    48 * HourMs }

\* a new process finds one snapshot that an earlier process wrote at time 1
AgeInit ==
  /\ db = PriorRows(1)
  /\ nextId = 2
  /\ \E age \in SnapshotAges : clock = 1 + age
  /\ ticks = 0
  /\ ledger = 1
  /\ dbConfigured = TRUE
  /\ accountsCache = None
  /\ accountsCacheTime = 0
  /\ memoryCache = None
  /\ memoryCacheTime = 0
  /\ pc = [p \in Callers |-> "idle"]
  /\ frame = [p \in Callers |-> NoFrame]
  /\ obs = [p \in Callers |-> NoObs]
  /\ callsMade = 0

\* calls of calculateBalances that find the snapshot or compute anew
AgeNext ==
  \E p \in Callers :
    \/ \E codes \in CodeLists(p) : Call(p, "calculateBalances", FALSE, codes)
    \/ \E ok \in BOOLEAN : DbRead(p, ok)
    \/ \E ok \in BOOLEAN : FetchAccounts(p, ok)
    \/ \E ok \in BOOLEAN : FetchPage(p, ok)
    \/ \E ok \in BOOLEAN : SaveDelete(p, ok)
    \/ \E ok \in BOOLEAN : SaveInsert(p, ok)

InitAge ==
  AgeInit /\ LoopQuiet /\ CalcQuiet /\ AggQuiet /\ FindQuiet /\ WfQuiet
    /\ ExecQuiet /\ ConvQuiet /\ AppQuiet

NextAge == AgeNext

SpecAge == InitAge /\ [][NextAge]_vars

\* C31: while the snapshot the process found is still the newest one, no
\* call has been served from Tier 2 if that snapshot is more than 24 hours
\* old
C31_StaleSnapshotUnused ==
  \A p \in Callers :
    obs[p].path = "L2" /\ nextId = 2 =>
      \A row \in db : clock - row.created_at <= 24 * 3600000

\* C32: at the instant the only call made so far returns from its cold
\* compute, Tier 1 holds a map younger than its TTL, so that a call of
\* calculateBalances that starts then is served from Tier 1 (the second
\* branch of Call) without a read of the store or a request to the ledger
C32_Tier1AfterColdCompute ==
  [][\A p \in Callers :
       /\ callsMade = 1
       /\ pc[p] \in {"save_delete", "save_insert"}
       /\ pc'[p] = "done"
       /\ obs'[p].path = "L3"
       => /\ memoryCache' # None
          /\ memoryCacheTime' # 0
          /\ clock' - memoryCacheTime' < MEMORY_CACHE_TTL]_vars

\* C33: once two cold computes that both wrote their snapshot have returned,
\* the snapshot written last holds the map of Tier 1 (as JSON gives it
\* back), and when one of the two scans read the whole ledger in its latest
\* version, Tier 1 holds the map of that scan
C33_LatestScanWins ==
  (/\ \A p \in Callers :
        pc[p] = "done" /\ obs[p].path = "L3" /\ obs[p].inserted # 0
   /\ callsMade = 2)
  => /\ memoryCache # None
     /\ \A row \in db :
          row.id = nextId - 1 => row.data = JsonRoundTrip(memoryCache[1])
     /\ \A p \in Callers :
          frame[p].ret = Some(WholeScan(ledger, ledger)) =>
            memoryCache[1] = WholeScan(ledger, ledger)

\* the last n elements of a sequence, all of them when they are fewer
LastOf(seq, n) ==
  [i \in 1..(IF Len(seq) < n THEN Len(seq) ELSE n) |->
     seq[i + (IF Len(seq) < n THEN 0 ELSE Len(seq) - n)]]

\* handler h ends its call of analyze in this step
AnalyzeEnds(h) == convCalls[h].pc = "model" /\ convCalls'[h].pc = "done"

\* C34: a step other than the sweep changes the conversation store only if
\* in it a call of analyze for a thread ends with a final text, and then the
\* thread's entry becomes the history the call read when it began followed
\* by the question and the final text (the last 20 of them), every other
\* entry staying as it is; a call that ends with an error response
\* or that was given no thread leaves the store unchanged; and no stored
\* message is one of a turn with tools
C34_StoreOnlyOnFinalText ==
  [][/\ (conversationStore' # conversationStore
          /\ convEvent'.op # "cleanupOldConversations") =>
          \E h \in Handlers :
            LET call == convCalls[h]
            IN /\ AnalyzeEnds(h)
               /\ call.threadTs # NoThread
               /\ convCalls'[h].response =
                    Some([text |-> call.question, is_error |-> FALSE])
               /\ DOMAIN conversationStore' =
                    DOMAIN conversationStore \cup {call.threadTs}
               /\ conversationStore'[call.threadTs].messages =
                    LastOf(call.existingMessages \o
                             << [role |-> "user", content |-> call.question],
                                [role |-> "assistant", content |-> call.question] >>,
                           20)
               /\ \A t \in DOMAIN conversationStore \ {call.threadTs} :
                    conversationStore'[t] = conversationStore[t]
     /\ \A h \in Handlers :
          (/\ AnalyzeEnds(h)
           /\ \/ convCalls'[h].response[1].is_error
              \/ convCalls[h].threadTs = NoThread)
          => conversationStore' = conversationStore
     /\ \A t \in DOMAIN conversationStore' :
          \A i \in DOMAIN conversationStore'[t].messages :
            conversationStore'[t].messages[i].content < 100]_vars

\* after two turns with tools a reply in the thread of nine answers ended
\* with a final text, and the thread holds its eighteen messages, the
\* question and the answer
C34_Witness ==
  /\ convEvent.op = "saveConversation"
  /\ \E h \in Handlers :
       /\ convCalls[h].pc = "done"
       /\ convCalls[h].threadTs = PriorThread
       /\ convCalls[h].iteration = 3
       /\ Len(convCalls[h].messages) = 23
       /\ Len(convCalls[h].existingMessages) = 18
       /\ conversationStore[PriorThread].messages =
            convCalls[h].existingMessages \o
              << UserMessage(convCalls[h].question),
                 AssistantMessage(convCalls[h].question) >>

\* C35: as long as no sweep has run, the thread of every call of analyze
\* that has ended with an answer holds the question of the call followed by
\* its answer
C35_AnswersKept ==
  \A h \in Handlers :
    LET call == convCalls[h]
    IN (/\ call.pc = "done"
        /\ call.threadTs # NoThread
        /\ call.response = Some(formatResponse(call.question))
        /\ sweepDue = CleanupInterval)
       => /\ call.threadTs \in DOMAIN conversationStore
          /\ \E i \in DOMAIN conversationStore[call.threadTs].messages :
               /\ i + 1 \in DOMAIN conversationStore[call.threadTs].messages
               /\ conversationStore[call.threadTs].messages[i] =
                    UserMessage(call.question)
               /\ conversationStore[call.threadTs].messages[i + 1] =
                    AssistantMessage(call.question)

\* C36: every stored history has even length, its messages at odd
\* positions are of the user and those at even positions of the assistant
C36_Alternates ==
  \A t \in DOMAIN conversationStore :
    LET stored == conversationStore[t].messages
    IN /\ Len(stored) % 2 = 0
       /\ \A i \in DOMAIN stored :
            stored[i].role = IF i % 2 = 1 THEN "user" ELSE "assistant"

\* a thread of ten answers was trimmed on its eleventh: it begins with the
\* second question
C36_Witness ==
  /\ PriorThread \in DOMAIN conversationStore
  /\ Len(conversationStore[PriorThread].messages) = 20
  /\ conversationStore[PriorThread].messages[1].content = 2
  /\ conversationStore[PriorThread].messages[1].role = "user"
  /\ conversationStore[PriorThread].messages[19] = UserMessage(11)

\* C37: a call of analyze that has ended has returned a formatted response,
\* an answer or an error, and an error response whenever the model call
\* threw; a call that has not ended has returned nothing; no step leaves
\* the call anywhere but at a model call, a tool, a sleep or its end
C37_NeverThrows ==
  /\ loop.pc \in {"idle", "model", "tool", "sleep", "done"}
  /\ loop.pc = "done" =>
       /\ loop.outcome # None
       /\ DOMAIN loop.outcome[1] = {"text", "is_error"}
       /\ loop.outcome[1].is_error \in BOOLEAN
       /\ trace.thrown # None => loop.outcome[1].is_error
  /\ loop.pc # "done" => loop.outcome = None /\ trace.thrown = None

\* every tool throws, a turn with tools has been answered, and the second
\* model call failed with an error that has no status: the generic error
\* response was returned
C37_Witness ==
  /\ loop.pc = "done"
  /\ toolThrows = ToolNames
  /\ trace.modelCalls = 2
  /\ Len(loop.messages) >= 3
  /\ trace.thrown # None
  /\ trace.thrown[1].status = 0
  /\ loop.outcome =
       Some(formatError("I encountered an error while analyzing your question."))

\* C38: accountBalance called with no search, no type, no subtype and no
\* codes has returned an error result with a hint, and has neither asked for
\* the accounts nor called calculateBalances, which is where the cache and
\* the ledger scan are
C38_NoFilter ==
  (/\ wfPc # "idle"
   /\ wfInput.search = <<>>
   /\ wfInput.type = <<>>
   /\ wfInput.subtype = <<>>
   /\ wfInput.codes = <<>>)
  => /\ wfPc = "done"
     /\ wfOut # None
     /\ {"error", "is_error", "hint"} \subseteq DOMAIN wfOut[1]
     /\ wfOut[1].is_error = TRUE
     /\ wfOut[1].error =
          "Please provide at least one filter: search (account name), type, subtype, or codes"
     /\ wfEffects.accountsReads = 0
     /\ wfEffects.calcCalls = 0
     /\ ~wfEffects.threw

\* accountBalance({}) has returned
C38_Witness ==
  /\ wfPc = "done"
  /\ wfInput = [search |-> <<>>, type |-> <<>>, subtype |-> <<>>, codes |-> <<>>]
  /\ wfOut = Some(NoFilterResult)
  /\ wfEffects = NoEffects

\* ------------------------------------------------------------------------
\* app.js: claims
\* ------------------------------------------------------------------------

\* the channels that the value of FPA_CHANNEL_ID names
Authorised(env) ==
  CASE env = T_C1 -> { T_C1 }
    [] env = T_C1_C2 -> { T_C1, T_C2 }
    [] env = T_C1_C2_Spaced -> { T_C1, T_C2 }
    [] OTHER -> {}

\* C39: a handler has called analyze only for a /fpabot command or a
\* message in a thread whose channel is one of those FPA_CHANNEL_ID names
\* (none when it is not set), and never for a message of a bot
C39_OnlyFpaChannels ==
  appOut.analyze =>
    \/ /\ appIn.kind = "command"
       /\ appIn.command.channel \in Authorised(appEnv.FPA_CHANNEL_ID)
    \/ /\ appIn.kind = "message"
       /\ appIn.message.channel \in Authorised(appEnv.FPA_CHANNEL_ID)
       /\ appIn.message.bot = ""
       /\ appIn.message.inThread

\* a reply in a thread of the second channel of "C1, C2" has reached analyze
C39_Witness ==
  /\ appOut.analyze
  /\ appIn.kind = "message"
  /\ appEnv.FPA_CHANNEL_ID = T_C1_C2_Spaced
  /\ appIn.message.channel = T_C2
  /\ appOut.question = T_Question

\* C40: with a secret configured, a POST to /github-webhook whose signature
\* is missing or is not the HMAC-SHA256 of the body has been answered with
\* 401 'Invalid signature', and its payload has not been handled
C40_InvalidSignature ==
  (/\ appIn.kind = "request"
   /\ appEnv.GITHUB_WEBHOOK_SECRET # ""
   /\ appIn.req.method = "POST"
   /\ appIn.req.url = "/github-webhook"
   /\ appIn.req.signature #
        T_Sha256 \o hexDigest(appEnv.GITHUB_WEBHOOK_SECRET, appIn.req.body))
  => /\ appOut.status = 401
     /\ appOut.posted = "Invalid signature"
     /\ ~appOut.handled

====
